---- MODULE Spec2Model ----
(***************************************************************************)
(* A model of the UDCS Packer (U-Pack v2.0.0) packaging pipeline:          *)
(* ObjFormatter.run_procs and the stages it calls, acting on a batch root  *)
(* directory of object directories.                                        *)
(*                                                                         *)
(* The file system is modelled by value.  The batch root is a sequence of  *)
(* entries in directory-listing order; an entry is a file (name, content)  *)
(* or an object directory (name, tree).  A tree is the sequence of the     *)
(* files below the directory, each with the path of directories leading to *)
(* it, kept in the order os.walk meets them.  A name is split as           *)
(* os.path.splitext splits it: [b |-> stem, e |-> extension].              *)
(***************************************************************************)
EXTENDS Integers, Sequences, FiniteSets, TLC

VARIABLES
    root,       \* the batch root: Seq of entries (listdir order)
    out,        \* the directories beside the batch root: Seq of [name, files]
    parent,     \* files written beside the batch root (transfer manifests)
    ledger,     \* the master metadata CSV: [hdr, rows]
    pc,         \* position of the single thread
    sel,        \* check boxes chosen for this run (set of stage names)
    prompting,  \* frame2.prompt: 1 = 'Prompt after Each Action'
    nselect,    \* run_procs.nselect
    todo,       \* rest of the listdir() snapshot the current loop iterates
    cur,        \* name of the object the current loop iteration works on
    lv,         \* local variables of the running stage
    nextId,     \* number of identifiers uuid4 has handed out
    runs,       \* number of run_procs invocations started
    runnext,    \* run_procs.runnext
    menu,       \* the selections the operator may make (fixed by Init)
    obs         \* observations of the current run (history, not program state)

vars == <<root, out, parent, ledger, pc, sel, prompting, nselect, todo, cur,
          lv, nextId, runs, runnext, menu, obs>>

----------------------------------------------------------------------------
(* Bounds of the model *)

MaxObjs == 2
MaxRuns == 2
\* runs in the specifications that are not about what a later run finds
MaxWholeRuns == 1
\* writes of other processes to the files of a batch during one run
MaxEdits == 1

----------------------------------------------------------------------------
(* Names and contents *)

Nm(b, e) == [b |-> b, e |-> e]

\* path.basename of a directory entry: stem and extension joined again
FullName(nm) == nm.b \o nm.e

LogName == Nm("log4preservation", ".csv")
TempManiName == Nm("temp_manifest", ".csv")

verifyHeadrs ==
    <<"System UUID", "Local ID", "Department Responsible", "Person Responsible",
      "Collection", "Brief Description", "Object URI", "Collection URI">>

headrow == <<"SysUID", "LocalID", "RegisDateTime", "RegisPerson">>

\* gen_ID: 'vtdata_' + str(uuid.uuid4()); the n-th uuid is written n
gen_ID(n) == "vtdata_" \o ToString(n)

Csv(lines) == [k |-> "csv", lines |-> lines]
Bytes(v) == [k |-> "bytes", v |-> v]

\* a file the user running the program may not read: open(finame, "rb")
\* raises PermissionError
Locked(v) == [k |-> "locked", v |-> v]
Readable(c) == c.k # "locked"
EmptyFile == [k |-> "csv", lines |-> <<>>]

----------------------------------------------------------------------------
(* Sequences *)

RECURSIVE SeqMap(_, _)
SeqMap(Op(_), s) ==
    IF s = <<>> THEN <<>> ELSE <<Op(Head(s))>> \o SeqMap(Op, Tail(s))

Range(s) == {s[i] : i \in DOMAIN s}

\* index of the first element of s satisfying Test, 0 when there is none
FirstIdx(s, Test(_)) ==
    IF \E i \in DOMAIN s : Test(s[i])
    THEN CHOOSE i \in DOMAIN s : Test(s[i]) /\ \A j \in 1..(i-1) : ~Test(s[j])
    ELSE 0

----------------------------------------------------------------------------
(* The file system: the batch root *)

IsDirEntry(en) == en.isdir
DirEntry(nm, tree) == [isdir |-> TRUE, name |-> nm, tree |-> tree]
FileEntry(nm, c) == [isdir |-> FALSE, name |-> nm, c |-> c]

\* listdir(root): the names, in listing order
listdir(r) == [i \in DOMAIN r |-> r[i].name]

RootIdx(r, nm) == FirstIdx(r, LAMBDA en : en.name = nm)
RootExists(r, nm) == RootIdx(r, nm) # 0
RootIsDir(r, nm) == RootExists(r, nm) /\ r[RootIdx(r, nm)].isdir
RootIsFile(r, nm) == RootExists(r, nm) /\ ~r[RootIdx(r, nm)].isdir

\* open(path, 'w') ... close(): the file holds c, created when absent
RootWrite(r, nm, c) ==
    IF RootExists(r, nm)
    THEN [r EXCEPT ![RootIdx(r, nm)] = FileEntry(nm, c)]
    ELSE Append(r, FileEntry(nm, c))

RootRead(r, nm) == r[RootIdx(r, nm)].c

RootRemove(r, nm) == SelectSeq(r, LAMBDA en : en.name # nm)

TreeOf(r, nm) == r[RootIdx(r, nm)].tree

SetTree(r, nm, tree) == [r EXCEPT ![RootIdx(r, nm)].tree = tree]

\* a slip in line 511: the directory is removed, not renamed
RenameDir_Removing(r, nm, new) == RootRemove(r, nm)

\* os.rename(fopath, newpath) of an object directory
RenameDir(r, nm, new) == [r EXCEPT ![RootIdx(r, nm)].name = new]

Dirs(r) == SelectSeq(r, IsDirEntry)
DirNames(r) == {r[i].name : i \in {j \in DOMAIN r : r[j].isdir}}

----------------------------------------------------------------------------
(* The file system: the tree below one object directory *)

File(p, n, c) == [p |-> p, n |-> n, c |-> c]

TIdx(t, p, n) == FirstIdx(t, LAMBDA f : f.p = p /\ f.n = n)

\* path.exists(join(obj, n)) for a file n directly in the object
TopExists(t, n) == TIdx(t, <<>>, n) # 0

\* path.exists(join(obj, d)) for a directory d directly in the object
TopDirExists(t, d) == \E i \in DOMAIN t : t[i].p # <<>> /\ t[i].p[1] = d

\* lines 398, 566, 638: path.exists(join(objpath, 'data'))
LooksBagged(t) == TopDirExists(t, "data") \/ TopExists(t, "data")

TopRead(t, n) == t[TIdx(t, <<>>, n)].c

TopWrite(t, n, c) ==
    IF TopExists(t, n)
    THEN [t EXCEPT ![TIdx(t, <<>>, n)].c = c]
    ELSE Append(t, File(<<>>, n, c))

TopRemove(t, n) == SelectSeq(t, LAMBDA f : ~(f.p = <<>> /\ f.n = n))

\* os.walk(objpath): the files of the directory itself, then those of its
\* subdirectories (which the tree keeps in walk order)
walk(t) ==
    SelectSeq(t, LAMBDA f : f.p = <<>>) \o SelectSeq(t, LAMBDA f : f.p # <<>>)

----------------------------------------------------------------------------
(* CSV records *)

\* position of column col in the header row hdr, 0 when it is missing
ColIdx(hdr, col) == FirstIdx(hdr, LAMBDA h : h = col)

\* csv.DictReader: row[col], the cell below the header cell named col
DictGet(hdr, row, col) == row[ColIdx(hdr, col)]

\* make_rdf reads every row and keeps the values of the last one; the graph
\* it serialises is determined by the eight values
RdfOf(lines) ==
    LET hdr == lines[1]
        row == lines[Len(lines)]
    IN  [k |-> "rdf",
         sysUUID |-> DictGet(hdr, row, "System UUID"),
         localID |-> DictGet(hdr, row, "Local ID"),
         deptName |-> DictGet(hdr, row, "Department Responsible"),
         persVTID |-> DictGet(hdr, row, "Person Responsible"),
         collName |-> DictGet(hdr, row, "Collection"),
         description |-> DictGet(hdr, row, "Brief Description"),
         objURI |-> DictGet(hdr, row, "Object URI"),
         collURI |-> DictGet(hdr, row, "Collection URI")]

\* make_rdf can serialise: the record has a data row and the eight columns
RdfReadable(lines) ==
    /\ Len(lines) >= 2
    /\ \A i \in DOMAIN verifyHeadrs : ColIdx(lines[1], verifyHeadrs[i]) # 0
    /\ Len(lines[Len(lines)]) >= Len(lines[1])

\* make_rdf(metacsv) on the object tree t: writes 'metadata.xml' beside the
\* record
make_rdf(t) == TopWrite(t, "metadata.xml", RdfOf(TopRead(t, "metadata.csv").lines))

----------------------------------------------------------------------------
(* Control *)

NoLocals == [stage |-> "none"]

\* what is recorded about a run: the batch root when the run and when the
\* current stage began, the renames and log rows of the run, the stages done
NewObs(r, o) == [run0 |-> r, st0 |-> r, out0 |-> o, stage |-> "none",
                 renamed |-> {}, logged |-> <<>>, done |-> <<>>,
                 counts |-> <<>>, rejected |-> FALSE, proceed |-> <<>>,
                 aborted |-> FALSE, edits |-> 0]


NoName == Nm("", "")

\* the thread leaves run_procs (return, or an exception reaching Tk's
\* mainloop): back to the idle GUI; what was observed of the run is kept
Idle == /\ pc' = "idle"
        /\ todo' = <<>>
        /\ cur' = NoName
        /\ lv' = NoLocals
        /\ sel' = {}
        /\ prompting' = 0
        /\ nselect' = 0
        /\ runnext' = TRUE
        /\ obs' = obs

\* a slip in lines 436, 514, 620, 650, 691: the question is put whatever
\* self.prompting is
ProceedAnswers_AlwaysAsking(moreopts, prompt) ==
    IF moreopts # 0
    THEN {[asked |-> TRUE, ack |-> FALSE, ans |-> b] : b \in BOOLEAN}
    ELSE {[asked |-> FALSE, ack |-> TRUE, ans |-> FALSE]}

\* the decision every stage ends with: whether run_procs goes on, and what
\* the operator is shown
\*   if not moreopts == 0: prompting == 0 -> True, else askyesno
\*   else: False, showwarning
ProceedAnswers(moreopts, prompt) ==
    IF moreopts # 0
    THEN IF prompt = 0
         THEN {[asked |-> FALSE, ack |-> FALSE, ans |-> TRUE]}
         ELSE {[asked |-> TRUE, ack |-> FALSE, ans |-> b] : b \in BOOLEAN}
    ELSE {[asked |-> FALSE, ack |-> TRUE, ans |-> FALSE]}

\* what is recorded of the end of a stage: the number it was passed, what
\* was shown and the answer it returned
Ended(o, stage, moreopts, a) ==
    [o EXCEPT !.done = Append(@, stage),
              !.proceed = Append(@, [stage |-> stage, moreopts |-> moreopts,
                                     asked |-> a.asked, ack |-> a.ack,
                                     ans |-> a.ans])]

----------------------------------------------------------------------------
(* Registration: ObjFormatter.register_obj *)

\* lines 464-472: the counters; the log file is opened 'w' when absent
RegBegin ==
    /\ pc = "reg_begin"
    /\ lv' = [stage |-> "regstr", moreopts |-> nselect, renamed |-> 0,
              rfiles |-> 0, warned |-> 0]
    /\ IF ~RootExists(root, LogName)
       THEN /\ root' = RootWrite(root, LogName, EmptyFile)
            /\ pc' = "reg_loghdr"
       ELSE /\ root' = root
            /\ pc' = "reg_list"
    /\ obs' = [obs EXCEPT !.stage = "regstr", !.st0 = root]
    /\ UNCHANGED <<out, parent, ledger, sel, prompting, nselect, todo, cur,
                   nextId, runs, runnext, menu>>

\* lines 469-472: writer.writeheader(), flushed when the file is closed
RegLogHeader ==
    /\ pc = "reg_loghdr"
    /\ root' = RootWrite(root, LogName, Csv(<<headrow>>))
    /\ pc' = "reg_list"
    /\ UNCHANGED <<out, parent, ledger, sel, prompting, nselect, todo, cur,
                   lv, nextId, runs, runnext, menu, obs>>

\* line 473: listdir(ofolder) is evaluated once, before the loop
RegList ==
    /\ pc = "reg_list"
    /\ todo' = listdir(root)
    /\ pc' = "reg_loop"
    /\ UNCHANGED <<root, out, parent, ledger, sel, prompting, nselect, cur,
                   lv, nextId, runs, runnext, menu, obs>>

\* lines 488-496 can index the record: it has a first data row with the
\* four leading columns
RegReadable(lines) == Len(lines) >= 2 /\ Len(lines[2]) >= 4

\* a slip in line 491: the identifier lands in the second column
SetSysId_WrongColumn(lines, newID) == [lines EXCEPT ![2][2] = newID]

\* line 491: lines[1][0] = newID
SetSysId(lines, newID) == [lines EXCEPT ![2][1] = newID]

\* lines 492-496: [newID, lines[1][1], strftime(...), lines[1][3]]
LogLine(lines, newID) == <<newID, lines[2][2], "RegisDateTime", lines[2][4]>>

\* a slip in lines 482-485: the loop is left at a directory without a record
RegLoop_Stopping ==
    /\ pc = "reg_loop"
    /\ todo # <<>>
    /\ LET fo == Head(todo) IN
       /\ todo' = IF RootIsDir(root, fo) /\ ~TopExists(TreeOf(root, fo), "metadata.csv")
                  THEN <<>> ELSE Tail(todo)
       /\ IF ~RootIsDir(root, fo)
          THEN /\ pc' = "reg_loop"
               /\ UNCHANGED <<cur, lv, nextId, obs>>
          ELSE IF ~TopExists(TreeOf(root, fo), "metadata.csv")
          THEN /\ pc' = "reg_loop"
               /\ lv' = [lv EXCEPT !.warned = 1]
               /\ UNCHANGED <<cur, nextId, obs>>
          ELSE LET newID == gen_ID(nextId + 1)
                   lines == TopRead(TreeOf(root, fo), "metadata.csv").lines
               IN  /\ nextId' = nextId + 1
                   /\ cur' = fo
                   /\ IF RegReadable(lines)
                      THEN /\ pc' = "reg_log"
                           /\ lv' = [stage |-> "regstr", moreopts |-> lv.moreopts,
                                     renamed |-> lv.renamed, rfiles |-> lv.rfiles,
                                     warned |-> lv.warned, newID |-> newID,
                                     lines |-> SetSysId(lines, newID),
                                     logline |-> LogLine(lines, newID)]
                           /\ obs' = obs
                      ELSE \* IndexError leaves run_procs
                           /\ pc' = "raised"
                           /\ lv' = lv
                           /\ obs' = obs
    /\ UNCHANGED <<root, out, parent, ledger, sel, prompting, nselect, runs,
                   runnext, menu>>

\* lines 473-496: the next entry of the listing; skip what is no directory
\* or has no 'metadata.csv'; otherwise draw the identifier and read the record
RegLoop ==
    /\ pc = "reg_loop"
    /\ todo # <<>>
    /\ LET fo == Head(todo) IN
       /\ todo' = Tail(todo)
       /\ IF ~RootIsDir(root, fo)
          THEN /\ pc' = "reg_loop"
               /\ UNCHANGED <<cur, lv, nextId, obs>>
          ELSE IF ~TopExists(TreeOf(root, fo), "metadata.csv")
          THEN /\ pc' = "reg_loop"
               /\ lv' = [lv EXCEPT !.warned = 1]
               /\ UNCHANGED <<cur, nextId, obs>>
          ELSE LET newID == gen_ID(nextId + 1)
                   lines == TopRead(TreeOf(root, fo), "metadata.csv").lines
               IN  /\ nextId' = nextId + 1
                   /\ cur' = fo
                   /\ IF RegReadable(lines)
                      THEN /\ pc' = "reg_log"
                           /\ lv' = [stage |-> "regstr", moreopts |-> lv.moreopts,
                                     renamed |-> lv.renamed, rfiles |-> lv.rfiles,
                                     warned |-> lv.warned, newID |-> newID,
                                     lines |-> SetSysId(lines, newID),
                                     logline |-> LogLine(lines, newID)]
                           /\ obs' = obs
                      ELSE \* IndexError leaves run_procs
                           /\ pc' = "raised"
                           /\ lv' = lv
                           /\ obs' = obs
    /\ UNCHANGED <<root, out, parent, ledger, sel, prompting, nselect, runs,
                   runnext, menu>>

\* a slip in line 497: the log opened 'w', which empties it first
AppendRow_Truncating(r, nm, row) == RootWrite(r, nm, Csv(<<row>>))

\* lines 497-499: the log is opened 'a' and one row is written
AppendRow(r, nm, row) ==
    RootWrite(r, nm, Csv(Append(IF RootExists(r, nm) THEN RootRead(r, nm).lines
                                 ELSE <<>>, row)))

RegLog ==
    /\ pc = "reg_log"
    /\ root' = AppendRow(root, LogName, lv.logline)
    /\ obs' = [obs EXCEPT !.logged = Append(@, lv.logline)]
    /\ pc' = "reg_trunc"
    /\ UNCHANGED <<out, parent, ledger, sel, prompting, nselect, todo, cur,
                   lv, nextId, runs, runnext, menu>>

\* line 500: open(metapath, 'w') empties the record
RegTrunc ==
    /\ pc = "reg_trunc"
    /\ root' = SetTree(root, cur, TopWrite(TreeOf(root, cur), "metadata.csv", EmptyFile))
    /\ pc' = "reg_write"
    /\ UNCHANGED <<out, parent, ledger, sel, prompting, nselect, todo, cur,
                   lv, nextId, runs, runnext, menu, obs>>

\* lines 501-502: w.writerows(lines)
RegWrite ==
    /\ pc = "reg_write"
    /\ root' = SetTree(root, cur, TopWrite(TreeOf(root, cur), "metadata.csv", Csv(lv.lines)))
    /\ pc' = "reg_rmrdf"
    /\ UNCHANGED <<out, parent, ledger, sel, prompting, nselect, todo, cur,
                   lv, nextId, runs, runnext, menu, obs>>

\* lines 503-504: remove(oldrdf) when it exists
RegRemoveRdf ==
    /\ pc = "reg_rmrdf"
    /\ root' = SetTree(root, cur, TopRemove(TreeOf(root, cur), "metadata.xml"))
    /\ pc' = "reg_rdf"
    /\ UNCHANGED <<out, parent, ledger, sel, prompting, nselect, todo, cur,
                   lv, nextId, runs, runnext, menu, obs>>

\* lines 507-509: make_rdf(metapath)
RegMakeRdf ==
    /\ pc = "reg_rdf"
    /\ IF RdfReadable(lv.lines)
       THEN /\ root' = SetTree(root, cur, make_rdf(TreeOf(root, cur)))
            /\ lv' = [lv EXCEPT !.rfiles = @ + 1]
            /\ pc' = "reg_rename"
       ELSE /\ pc' = "raised"
            /\ UNCHANGED <<root, lv>>
    /\ UNCHANGED <<out, parent, ledger, sel, prompting, nselect, todo, cur,
                   nextId, runs, runnext, menu, obs>>

\* a slip in line 473: the directory is listed again after each rename
RegRename_Relisting ==
    /\ pc = "reg_rename"
    /\ root' = RenameDir(root, cur, Nm(lv.newID, ""))
    /\ lv' = [lv EXCEPT !.renamed = @ + 1]
    /\ obs' = [obs EXCEPT !.renamed = @ \cup {[from |-> cur, to |-> Nm(lv.newID, "")]}]
    /\ todo' = listdir(root')
    /\ pc' = "reg_loop"
    /\ UNCHANGED <<out, parent, ledger, sel, prompting, nselect, cur,
                   nextId, runs, runnext, menu>>

\* lines 510-512: rename(fopath, newpath); renamed += 1
RegRename ==
    /\ pc = "reg_rename"
    /\ root' = RenameDir(root, cur, Nm(lv.newID, ""))
    /\ lv' = [lv EXCEPT !.renamed = @ + 1]
    /\ obs' = [obs EXCEPT !.renamed = @ \cup {[from |-> cur, to |-> Nm(lv.newID, "")]}]
    /\ pc' = "reg_loop"
    /\ UNCHANGED <<out, parent, ledger, sel, prompting, nselect, todo, cur,
                   nextId, runs, runnext, menu>>

\* lines 513-522: the loop is over; report and decide whether to go on
RegEnd ==
    /\ pc = "reg_loop"
    /\ todo = <<>>
    /\ \E a \in ProceedAnswers(lv.moreopts, prompting) :
         /\ runnext' = a.ans
         /\ pc' = IF a.ans THEN "at_inv" ELSE "returned"
         /\ obs' = Ended(obs, "regstr", lv.moreopts, a)
    /\ UNCHANGED <<root, out, parent, ledger, sel, prompting, nselect, todo,
                   cur, lv, nextId, runs, menu>>

----------------------------------------------------------------------------
(* Pre-packaging: ObjFormatter.pre_pack *)

TempDir == "temptemptemp"

\* the names listdir(olditempath) returns: the files directly in the object
\* and its subdirectories, each once, in tree order
RECURSIVE ThingsFrom(_, _)
ThingsFrom(t, seen) ==
    IF t = <<>> THEN <<>>
    ELSE LET f == Head(t)
             th == IF f.p = <<>> THEN [isdir |-> FALSE, n |-> f.n]
                   ELSE [isdir |-> TRUE, n |-> f.p[1]]
         IN  IF th \in seen THEN ThingsFrom(Tail(t), seen)
             ELSE <<th>> \o ThingsFrom(Tail(t), seen \cup {th})

Things(t) == ThingsFrom(t, {})

\* 'meta' in thing, for the file names of the model
HasMeta(n) == n \in {"metadata.csv", "metadata.xml", "metanotes.txt", "metafiles"}

Under(d, f) == File(<<d>> \o f.p, f.n, f.c)

\* shutil.copytree(olditempath, temppath): every file of the object, as
\* walked, again below 'temptemptemp'
copytree(t, d) == t \o [i \in DOMAIN walk(t) |-> Under(d, walk(t)[i])]

\* shutil.rmtree(thingpath)
rmtree(t, d) == SelectSeq(t, LAMBDA f : ~(f.p # <<>> /\ f.p[1] = d))

\* rename(temppath, newdirpath) inside the object
RenameSub(t, d, new) ==
    [i \in DOMAIN t |->
        IF t[i].p # <<>> /\ t[i].p[1] = d
        THEN [t[i] EXCEPT !.p = <<new>> \o Tail(t[i].p)]
        ELSE t[i]]

\* line 739: listdir(packdir), once
PreList ==
    /\ pc = "pre_list"
    /\ todo' = listdir(root)
    /\ pc' = "pre_loop"
    /\ lv' = [stage |-> "prepack"]
    /\ obs' = [obs EXCEPT !.stage = "prepack", !.st0 = root]
    /\ UNCHANGED <<root, out, parent, ledger, sel, prompting, nselect, cur,
                   nextId, runs, runnext, menu>>

\* lines 739-741: the next item; only directories are restructured
PreLoop ==
    /\ pc = "pre_loop"
    /\ todo # <<>>
    /\ todo' = Tail(todo)
    /\ IF RootIsDir(root, Head(todo))
       THEN cur' = Head(todo) /\ pc' = "pre_copy"
       ELSE cur' = cur /\ pc' = "pre_loop"
    /\ UNCHANGED <<root, out, parent, ledger, sel, prompting, nselect, lv,
                   nextId, runs, runnext, menu, obs>>

\* lines 742-744: copytree lists the object, then makes 'temptemptemp', which
\* must not exist
PreCopy ==
    /\ pc = "pre_copy"
    /\ IF TopDirExists(TreeOf(root, cur), TempDir)
       THEN /\ pc' = "raised"
            /\ lv' = lv
       ELSE /\ lv' = [stage |-> "prepack", tocopy |-> walk(TreeOf(root, cur)),
                      things |-> <<>>]
            /\ pc' = "pre_copying"
    /\ UNCHANGED <<root, out, parent, ledger, sel, prompting, nselect, todo,
                   cur, nextId, runs, runnext, menu, obs>>

\* line 744: copytree copies the next file
PreCopyFile ==
    /\ pc = "pre_copying"
    /\ lv.tocopy # <<>>
    /\ root' = SetTree(root, cur,
                       Append(TreeOf(root, cur), Under(TempDir, Head(lv.tocopy))))
    /\ lv' = [lv EXCEPT !.tocopy = Tail(@)]
    /\ UNCHANGED <<out, parent, ledger, pc, sel, prompting, nselect, todo, cur,
                   nextId, runs, runnext, menu, obs>>

\* line 745: the copy is complete; listdir(olditempath)
PreThings ==
    /\ pc = "pre_copying"
    /\ lv.tocopy = <<>>
    /\ lv' = [lv EXCEPT !.things = Things(TreeOf(root, cur))]
    /\ pc' = "pre_prune"
    /\ UNCHANGED <<root, out, parent, ledger, sel, prompting, nselect, todo,
                   cur, nextId, runs, runnext, menu, obs>>

\* a slip in line 747: the copy is not spared
PruneThing_CopyToo(t, th) ==
    IF th.isdir THEN rmtree(t, th.n)
    ELSE IF ~HasMeta(th.n) THEN TopRemove(t, th.n)
    ELSE t

\* lines 745-751, one thing: what is not the copy is removed when it is a
\* directory, or a file without 'meta' in its name
PruneThing(t, th) ==
    IF th.n = TempDir THEN t
    ELSE IF th.isdir THEN rmtree(t, th.n)
    ELSE IF ~HasMeta(th.n) THEN TopRemove(t, th.n)
    ELSE t

PrePrune ==
    /\ pc = "pre_prune"
    /\ lv.things # <<>>
    /\ root' = SetTree(root, cur, PruneThing(TreeOf(root, cur), Head(lv.things)))
    /\ lv' = [lv EXCEPT !.things = Tail(@)]
    /\ UNCHANGED <<out, parent, ledger, pc, sel, prompting, nselect, todo, cur,
                   nextId, runs, runnext, menu, obs>>

\* line 752: rename(temppath, newdirpath), newdirpath named as the object
PreRename ==
    /\ pc = "pre_prune"
    /\ lv.things = <<>>
    /\ root' = SetTree(root, cur, RenameSub(TreeOf(root, cur), TempDir, FullName(cur)))
    /\ pc' = "pre_loop"
    /\ UNCHANGED <<out, parent, ledger, sel, prompting, nselect, todo, cur, lv,
                   nextId, runs, runnext, menu, obs>>

\* line 753: return packdir; run_procs goes on to the stages
PreEnd ==
    /\ pc = "pre_loop"
    /\ todo = <<>>
    /\ pc' = "at_meta"
    /\ obs' = [obs EXCEPT !.done = Append(@, "prepack")]
    /\ UNCHANGED <<root, out, parent, ledger, sel, prompting, nselect, todo,
                   cur, lv, nextId, runs, runnext, menu>>

----------------------------------------------------------------------------
(* The orchestrator: ObjFormatter.run_procs *)

StageOrder == <<"meta", "regstr", "inv", "bagit", "tar", "trans">>

\* lines 756-777: the button is pressed; the check boxes are read and the
\* folder is checked
RunProcs ==
    /\ pc = "idle"
    /\ runs < menu.maxruns
    /\ runs' = runs + 1
    /\ \E s \in menu.sels, pr \in menu.prompts, folder \in menu.folders :
         /\ sel' = s
         /\ prompting' = pr
         /\ nselect' = Cardinality(s)
         /\ pc' = IF folder = "" \/ folder = "missing" \/ Cardinality(s) = 0
                  THEN "returned" ELSE "ask_prepack"
         /\ obs' = [NewObs(root, out) EXCEPT
                       !.aborted = folder = "" \/ folder = "missing"
                                   \/ Cardinality(s) = 0]
    /\ runnext' = TRUE
    /\ UNCHANGED <<root, out, parent, ledger, todo, cur, lv, nextId, menu>>

\* lines 779-785: the pre-packaging question, 'Is this the first time running
\* UDOF on THESE items?'; the operator says yes in the first run at most
AskPrepack ==
    /\ pc = "ask_prepack"
    /\ \E prepack \in (IF runs = 1 THEN menu.prepack ELSE {FALSE}) :
         pc' = IF prepack THEN "pre_list" ELSE "at_meta"
    /\ UNCHANGED <<root, out, parent, ledger, sel, prompting, nselect, todo,
                   cur, lv, nextId, runs, runnext, menu, obs>>

\* an unchecked stage is passed over
SkipStage(here, next, stage) ==
    /\ pc = here
    /\ stage \notin sel
    /\ pc' = next
    /\ UNCHANGED <<root, out, parent, ledger, sel, prompting, nselect, todo,
                   cur, lv, nextId, runs, runnext, menu, obs>>

\* lines 787-800 and 425-432: nselect -= 1; the ledger path and the identifier
\* column are checked, then create_meta is called, which wants a '.csv'
CallMeta ==
    /\ pc = "at_meta"
    /\ "meta" \in sel
    /\ nselect' = nselect - 1
    /\ \E metainput \in menu.metainputs :
         /\ pc' = IF metainput = "" \/ metainput = "missing" THEN "returned"
                  ELSE IF metainput = "ledger.csv" /\ menu.idcolumn = "" THEN "returned"
                  ELSE IF metainput # "ledger.csv" THEN "returned"
                  ELSE "meta_begin"
         /\ obs' = [obs EXCEPT
                       !.aborted = metainput = "" \/ metainput = "missing"
                                   \/ (metainput = "ledger.csv" /\ menu.idcolumn = "")]
    /\ UNCHANGED <<root, out, parent, ledger, sel, prompting, todo, cur, lv,
                   nextId, runs, runnext, menu>>

\* lines 804-806: nselect -= 1; register_obj(itemsdir, nselect)
CallRegister ==
    /\ pc = "at_regstr"
    /\ "regstr" \in sel
    /\ nselect' = nselect - 1
    /\ pc' = "reg_begin"
    /\ UNCHANGED <<root, out, parent, ledger, sel, prompting, todo, cur, lv,
                   nextId, runs, runnext, menu, obs>>

\* a slip in line 811: the stage is not taken off the count
CallInventory_NoDecrement ==
    /\ pc = "at_inv"
    /\ "inv" \in sel
    /\ pc' = "inv_begin"
    /\ UNCHANGED <<root, out, parent, ledger, sel, prompting, nselect, todo,
                   cur, lv, nextId, runs, runnext, menu, obs>>

\* lines 810-812: nselect -= 1; run_inventory(itemsdir, nselect)
CallInventory ==
    /\ pc = "at_inv"
    /\ "inv" \in sel
    /\ nselect' = nselect - 1
    /\ pc' = "inv_begin"
    /\ UNCHANGED <<root, out, parent, ledger, sel, prompting, todo, cur, lv,
                   nextId, runs, runnext, menu, obs>>

\* a slip in line 822: run_tar is called whether or not it is checked
CallTar_Unasked ==
    /\ pc = "at_tar"
    /\ nselect' = nselect - 1
    /\ pc' = "tar_begin"
    /\ UNCHANGED <<root, out, parent, ledger, sel, prompting, todo, cur, lv,
                   nextId, runs, runnext, menu, obs>>

\* lines 822-824: nselect -= 1; run_tar(itemsdir, nselect)
CallTar ==
    /\ pc = "at_tar"
    /\ "tar" \in sel
    /\ nselect' = nselect - 1
    /\ pc' = "tar_begin"
    /\ UNCHANGED <<root, out, parent, ledger, sel, prompting, todo, cur, lv,
                   nextId, runs, runnext, menu, obs>>

\* run_procs returns, or an exception ends the callback: the GUI is idle
Return ==
    /\ pc \in {"returned", "raised"}
    /\ Idle
    /\ UNCHANGED <<root, out, parent, ledger, nextId, runs, menu>>

\* the process is killed between two steps of a stage; the files stay as
\* they are
Crash ==
    /\ pc \notin {"idle", "returned", "raised"}
    /\ lv.stage \in menu.crash
    /\ Idle
    /\ UNCHANGED <<root, out, parent, ledger, nextId, runs, menu>>

----------------------------------------------------------------------------
(* Metadata: ObjFormatter.create_meta and ObjFormatter.meta_from_csv *)

\* the files below the directories of root r, each under its directory's
\* name, in listing order
RECURSIVE BelowDirs(_)
BelowDirs(r) ==
    IF r = <<>> THEN <<>>
    ELSE (IF Head(r).isdir
          THEN [i \in DOMAIN walk(Head(r).tree) |->
                  Under(FullName(Head(r).name), walk(Head(r).tree)[i])]
          ELSE <<>>) \o BelowDirs(Tail(r))

\* line 392-393: path.exists(path.join(fpath, foldname)); with an empty
\* foldname the path is the batch root itself, which exists
FoldExists(r, foldname) == foldname = NoName \/ RootIsDir(r, foldname)

\* what is below foldpath: the tree of the object directory, or, for the
\* batch root itself, its files and the files below its directories
FoldTree(r, foldname) ==
    IF foldname = NoName
    THEN LET top == SelectSeq(r, LAMBDA en : ~en.isdir)
         IN  [i \in DOMAIN top |-> File(<<>>, FullName(top[i].name), top[i].c)]
             \o BelowDirs(r)
    ELSE IF RootIsDir(r, foldname) THEN TreeOf(r, foldname) ELSE <<>>

\* open(path.join(foldpath, n), 'w') ... close(), n being 'metadata.csv' or
\* 'metadata.xml'
FoldWrite(r, foldname, n, c) ==
    IF foldname = NoName
    THEN RootWrite(r, Nm("metadata", IF n = "metadata.csv" THEN ".csv" ELSE ".xml"), c)
    ELSE SetTree(r, foldname, TopWrite(TreeOf(r, foldname), n, c))

\* a slip in line 386: the header compared as a set of names
HeaderOk_AnyOrder(headers) == Range(headers) = Range(verifyHeadrs)

\* line 386: headers == verifyHeadrs
HeaderOk(headers) == headers = verifyHeadrs

\* lines 420-434 and 377-388: a source that is no '.csv' ends the run; else
\* the counters are set and the ledger's header is checked
MetaBegin ==
    /\ pc = "meta_begin"
    /\ obs' = [obs EXCEPT !.stage = "meta", !.st0 = root]
    /\ IF HeaderOk(ledger.hdr)
       THEN /\ lv' = [stage |-> "meta", moreopts |-> nselect, nfiles |-> 0,
                      rfiles |-> 0, overwrite_all |-> FALSE, firstone |-> TRUE,
                      rows |-> ledger.rows, asked |-> 0, rejected |-> FALSE,
                      hist |-> <<>>]
            /\ pc' = "meta_loop"
       ELSE /\ lv' = [stage |-> "meta", moreopts |-> nselect, nfiles |-> 0,
                      rfiles |-> 0, overwrite_all |-> FALSE, firstone |-> TRUE,
                      rows |-> <<>>, asked |-> 0, rejected |-> TRUE,
                      hist |-> <<>>]
            /\ pc' = "meta_loop"
    /\ UNCHANGED <<root, out, parent, ledger, sel, prompting, nselect, todo,
                   cur, nextId, runs, runnext, menu>>

\* what is recorded of one pass of the loop of lines 389-407: the row, what
\* was found on disk, the questions put to the operator and the answers
RowSeen(rowno, foldname, exists, bagged, hasmeta, skipbag, owq, answer, skip1) ==
    [rowno |-> rowno, obj |-> foldname, exists |-> exists, bagq |-> bagged,
     hasmeta |-> hasmeta, skipbag |-> skipbag, owq |-> owq,
     answer |-> answer, skip1 |-> skip1]

\* a slip in line 402: firstone is not cleared, so the question comes again
MetaRowStep_AskingAgain ==
    /\ pc = "meta_loop"
    /\ lv.rows # <<>>
    /\ LET row == Head(lv.rows)
           foldname == Nm(DictGet(ledger.hdr, row, menu.idcolumn), "")
           exists == FoldExists(root, foldname)
           t == FoldTree(root, foldname)
           hasmeta == TopExists(t, "metadata.csv")
       IN  \E skipbag \in (IF LooksBagged(t) THEN BOOLEAN ELSE {~exists}),
              answer \in (IF hasmeta THEN BOOLEAN ELSE {lv.overwrite_all}) :
             LET skip1 == skipbag \/ (hasmeta /\ ~answer) IN
             /\ lv' = [lv EXCEPT !.rows = IF skip1 THEN Tail(@) ELSE @,
                                 !.overwrite_all = answer,
                                 !.asked = IF hasmeta THEN @ + 1 ELSE @,
                                 !.hist = Append(@, RowSeen(
                                     Len(ledger.rows) - Len(lv.rows) + 1, foldname,
                                     exists, LooksBagged(t), hasmeta, skipbag,
                                     hasmeta, answer, skip1))]
             /\ cur' = IF skip1 THEN cur ELSE foldname
             /\ pc' = IF skip1 THEN "meta_loop" ELSE "meta_write"
    /\ UNCHANGED <<root, out, parent, ledger, sel, prompting, nselect, todo,
                   nextId, runs, runnext, menu, obs>>

\* lines 389-407: the next ledger row and the three tests that decide whether
\* its object is skipped
MetaRowStep ==
    /\ pc = "meta_loop"
    /\ lv.rows # <<>>
    /\ LET row == Head(lv.rows)
           foldname == Nm(DictGet(ledger.hdr, row, menu.idcolumn), "")
           exists == FoldExists(root, foldname)
           t == FoldTree(root, foldname)
           hasmeta == TopExists(t, "metadata.csv")
       IN  \* skip1 after lines 393-400; overwrite_all after lines 401-404
           \E skipbag \in (IF LooksBagged(t) THEN BOOLEAN ELSE {~exists}),
              answer \in (IF hasmeta /\ lv.firstone THEN BOOLEAN ELSE {lv.overwrite_all}) :
             LET skip1 == skipbag \/ (hasmeta /\ ~answer) IN
             /\ lv' = [lv EXCEPT !.rows = IF skip1 THEN Tail(@) ELSE @,
                                 !.firstone = @ /\ ~hasmeta,
                                 !.overwrite_all = answer,
                                 !.asked = IF hasmeta /\ lv.firstone THEN @ + 1 ELSE @,
                                 !.hist = Append(@, RowSeen(
                                     Len(ledger.rows) - Len(lv.rows) + 1, foldname,
                                     exists, LooksBagged(t), hasmeta, skipbag,
                                     hasmeta /\ lv.firstone, answer, skip1))]
             /\ cur' = IF skip1 THEN cur ELSE foldname
             /\ pc' = IF skip1 THEN "meta_loop" ELSE "meta_write"
    /\ UNCHANGED <<root, out, parent, ledger, sel, prompting, nselect, todo,
                   nextId, runs, runnext, menu, obs>>

\* lines 408-414: the record: the ledger's header and the row
MetaWrite ==
    /\ pc = "meta_write"
    /\ root' = FoldWrite(root, cur, "metadata.csv", Csv(<<ledger.hdr, Head(lv.rows)>>))
    /\ lv' = [lv EXCEPT !.nfiles = @ + 1]
    /\ pc' = "meta_rdf"
    /\ UNCHANGED <<out, parent, ledger, sel, prompting, nselect, todo, cur,
                   nextId, runs, runnext, menu, obs>>

\* lines 415-417: make_rdf(metafile)
MetaRdf ==
    /\ pc = "meta_rdf"
    /\ IF RdfReadable(TopRead(FoldTree(root, cur), "metadata.csv").lines)
       THEN /\ root' = FoldWrite(root, cur, "metadata.xml",
                           RdfOf(TopRead(FoldTree(root, cur), "metadata.csv").lines))
            /\ lv' = [lv EXCEPT !.rfiles = @ + 1, !.rows = Tail(@)]
            /\ pc' = "meta_loop"
       ELSE /\ pc' = "raised"
            /\ UNCHANGED <<root, lv>>
    /\ UNCHANGED <<out, parent, ledger, sel, prompting, nselect, todo, cur,
                   nextId, runs, runnext, menu, obs>>

\* lines 418 and 435-446: meta_from_csv returns [nfiles, rfiles]; create_meta
\* reports the counts and decides whether to go on
MetaEnd ==
    /\ pc = "meta_loop"
    /\ lv.rows = <<>>
    /\ \E a \in ProceedAnswers(lv.moreopts, prompting) :
         /\ runnext' = a.ans
         /\ pc' = IF a.ans THEN "at_regstr" ELSE "returned"
         /\ obs' = [Ended(obs, "meta", lv.moreopts, a) EXCEPT
                       !.counts = <<lv.nfiles, lv.rfiles>>,
                       !.rejected = lv.rejected]
    /\ UNCHANGED <<root, out, parent, ledger, sel, prompting, nselect, todo,
                   cur, lv, nextId, runs, menu>>

----------------------------------------------------------------------------
(* Inventory: ObjFormatter.run_inventory *)

\* ObjFormatter.md5(finame): the digest of what the file holds
md5(c) == [alg |-> "md5", of |-> c]

\* ObjFormatter.sha3hash(filname): the digest of what the file holds
sha3hash(c) == [alg |-> "sha3_256", of |-> c]

Manifest(lines) == [k |-> "manifest", lines |-> lines]

\* line 577-578: the header line
ManiHeader == [t |-> "header"]

\* line 614: the trailing 'Comments, ' line
ManiComment == [t |-> "comment"]

\* line 584: path.basename(filepathname) == '.DS_Store'
IsArtifact(n) == n = ".DS_Store"

\* a slip in lines 598-599: the digests of an empty read
ManiRow_EmptyDigest(counter, obj, f) ==
    [t |-> "row", no |-> counter, name |-> f.n, md5 |-> md5(EmptyFile),
     sha3 |-> sha3hash(EmptyFile), relpath |-> <<FullName(obj)>> \o f.p \o <<f.n>>]

\* lines 587-613: the row of file f of object obj (the stat columns are left
\* out); both digests are computed from the file
ManiRow(counter, obj, f) ==
    [t |-> "row", no |-> counter, name |-> f.n, md5 |-> md5(f.c),
     sha3 |-> sha3hash(f.c), relpath |-> <<FullName(obj)>> \o f.p \o <<f.n>>]

\* a slip in line 570: the test for an existing manifest left out
HasManifest_Unchecked(t) == FALSE

\* line 570: path.exists(join(objpath, 'manifest.csv'))
HasManifest(t) == TopExists(t, "manifest.csv")

\* remove(filepathname) of the file at path p
RemoveAt(t, p, n) == SelectSeq(t, LAMBDA f : ~(f.p = p /\ f.n = n))

\* lines 559: the counter, and listdir(indir) once
InvBegin ==
    /\ pc = "inv_begin"
    /\ lv' = [stage |-> "inv", moreopts |-> nselect, manifiles |-> 0,
              counter |-> 0, files |-> <<>>, warned |-> 0,
              md5sum |-> md5(EmptyFile)]
    /\ todo' = listdir(root)
    /\ pc' = "inv_loop"
    /\ obs' = [obs EXCEPT !.stage = "inv", !.st0 = root]
    /\ UNCHANGED <<root, out, parent, ledger, sel, prompting, nselect, cur,
                   nextId, runs, runnext, menu>>

\* lines 559-575: the next entry; no directory, a bag the operator skips, or
\* an object with a manifest is passed over
InvLoop ==
    /\ pc = "inv_loop"
    /\ todo # <<>>
    /\ LET obj == Head(todo) IN
       /\ todo' = Tail(todo)
       /\ IF ~RootIsDir(root, obj)
          THEN /\ pc' = "inv_loop"
               /\ UNCHANGED <<cur, lv>>
          ELSE \E isabag \in (IF LooksBagged(TreeOf(root, obj)) THEN BOOLEAN ELSE {FALSE}) :
               LET hasmani == HasManifest(TreeOf(root, obj))
                   skipit == isabag \/ hasmani
               IN  IF skipit
                   THEN /\ pc' = "inv_loop"
                        /\ cur' = cur
                        /\ lv' = [lv EXCEPT !.warned = IF hasmani THEN 1 ELSE @]
                   ELSE /\ pc' = "inv_open"
                        /\ cur' = obj
                        /\ lv' = [lv EXCEPT !.manifiles = @ + 1, !.counter = 0]
    /\ UNCHANGED <<root, out, parent, ledger, sel, prompting, nselect, nextId,
                   runs, runnext, menu, obs>>

\* line 576: open(join(indir, 'temp_manifest.csv'), 'w')
InvOpen ==
    /\ pc = "inv_open"
    /\ root' = RootWrite(root, TempManiName, Manifest(<<>>))
    /\ pc' = "inv_header"
    /\ UNCHANGED <<out, parent, ledger, sel, prompting, nselect, todo, cur, lv,
                   nextId, runs, runnext, menu, obs>>

\* the temporary manifest gets one more line
TempAppend(r, line) ==
    RootWrite(r, TempManiName, Manifest(Append(RootRead(r, TempManiName).lines, line)))

\* a slip in lines 576-578: the header also goes to the final manifest name
InvHeader_InPlace ==
    /\ pc = "inv_header"
    /\ root' = SetTree(TempAppend(root, ManiHeader), cur,
                       TopWrite(TreeOf(root, cur), "manifest.csv",
                                Manifest(<<ManiHeader>>)))
    /\ lv' = [lv EXCEPT !.files = walk(TreeOf(root, cur))]
    /\ pc' = "inv_walk"
    /\ UNCHANGED <<out, parent, ledger, sel, prompting, nselect, todo, cur,
                   nextId, runs, runnext, menu, obs>>

\* lines 577-580: the header line; os.walk(objpath) begins
InvHeader ==
    /\ pc = "inv_header"
    /\ root' = TempAppend(root, ManiHeader)
    /\ lv' = [lv EXCEPT !.files = walk(TreeOf(root, cur))]
    /\ pc' = "inv_walk"
    /\ UNCHANGED <<out, parent, ledger, sel, prompting, nselect, todo, cur,
                   nextId, runs, runnext, menu, obs>>

\* the file at path f.p, name f.n below the object in work, as it is now
NowAt(r, obj, f) == TreeOf(r, obj)[TIdx(TreeOf(r, obj), f.p, f.n)]

\* a slip in lines 527 and 536: a file that cannot be opened is passed over
InvFile_SkippingUnreadable ==
    /\ pc = "inv_walk"
    /\ lv.files # <<>>
    /\ LET f == Head(lv.files) IN
       IF IsArtifact(f.n)
       THEN /\ root' = SetTree(root, cur, RemoveAt(TreeOf(root, cur), f.p, f.n))
            /\ lv' = [lv EXCEPT !.files = Tail(@)]
            /\ pc' = "inv_walk"
       ELSE IF Readable(NowAt(root, cur, f).c)
       THEN /\ lv' = [lv EXCEPT !.counter = @ + 1,
                                 !.md5sum = md5(NowAt(root, cur, f).c)]
            /\ pc' = "inv_sha3"
            /\ root' = root
       ELSE /\ lv' = [lv EXCEPT !.files = Tail(@)]
            /\ pc' = "inv_walk"
            /\ root' = root
    /\ UNCHANGED <<out, parent, ledger, sel, prompting, nselect, todo, cur,
                   nextId, runs, runnext, menu, obs>>

\* lines 581-598: the next file of the walk: an artifact is removed; any
\* other file is numbered and self.md5 opens and reads it, which raises when
\* it may not be read
InvFile ==
    /\ pc = "inv_walk"
    /\ lv.files # <<>>
    /\ LET f == Head(lv.files) IN
       IF IsArtifact(f.n)
       THEN /\ root' = SetTree(root, cur, RemoveAt(TreeOf(root, cur), f.p, f.n))
            /\ lv' = [lv EXCEPT !.files = Tail(@)]
            /\ pc' = "inv_walk"
       ELSE IF Readable(NowAt(root, cur, f).c)
       THEN /\ lv' = [lv EXCEPT !.counter = @ + 1,
                                 !.md5sum = md5(NowAt(root, cur, f).c)]
            /\ pc' = "inv_sha3"
            /\ root' = root
       ELSE /\ lv' = [lv EXCEPT !.counter = @ + 1]
            /\ pc' = "raised"
            /\ root' = root
    /\ UNCHANGED <<out, parent, ledger, sel, prompting, nselect, todo, cur,
                   nextId, runs, runnext, menu, obs>>

\* lines 599-613: self.sha3hash opens and reads the file again; the row is
\* written with the digest of the first read and the digest of this one
InvRow ==
    /\ pc = "inv_sha3"
    /\ LET now == NowAt(root, cur, Head(lv.files)) IN
       IF Readable(now.c)
       THEN /\ root' = TempAppend(root, [ManiRow(lv.counter, cur, now) EXCEPT
                                            !.md5 = lv.md5sum])
            /\ lv' = [lv EXCEPT !.files = Tail(@)]
            /\ pc' = "inv_walk"
       ELSE /\ pc' = "raised"
            /\ UNCHANGED <<root, lv>>
    /\ UNCHANGED <<out, parent, ledger, sel, prompting, nselect, todo, cur,
                   nextId, runs, runnext, menu, obs>>

\* another process writes to a file of an object while Inventory runs: the
\* file holds other bytes from then on
Modify ==
    /\ lv.stage = "inv"
    /\ pc \in {"inv_loop", "inv_open", "inv_header", "inv_walk", "inv_sha3", "inv_move"}
    /\ obs.edits < MaxEdits
    /\ \E i \in DOMAIN root :
         /\ root[i].isdir
         /\ \E k \in DOMAIN root[i].tree :
              /\ root[i].tree[k].c.k = "bytes"
              /\ root' = [root EXCEPT ![i].tree[k].c = Bytes(@.v + 1)]
    /\ obs' = [obs EXCEPT !.edits = @ + 1]
    /\ UNCHANGED <<out, parent, ledger, pc, sel, prompting, nselect, todo, cur,
                   lv, nextId, runs, runnext, menu>>

\* lines 614-615: the comment line; the file is closed
InvComment ==
    /\ pc = "inv_walk"
    /\ lv.files = <<>>
    /\ root' = TempAppend(root, ManiComment)
    /\ pc' = "inv_move"
    /\ UNCHANGED <<out, parent, ledger, sel, prompting, nselect, todo, cur, lv,
                   nextId, runs, runnext, menu, obs>>

\* lines 616-618: shutil.move(tomove, moveto), a rename within the batch root
InvMove ==
    /\ pc = "inv_move"
    /\ root' = RootRemove(SetTree(root, cur,
                    TopWrite(TreeOf(root, cur), "manifest.csv",
                             RootRead(root, TempManiName))), TempManiName)
    /\ pc' = "inv_loop"
    /\ UNCHANGED <<out, parent, ledger, sel, prompting, nselect, todo, cur, lv,
                   nextId, runs, runnext, menu, obs>>

\* lines 619-628: the loop is over; report and decide whether to go on
InvEnd ==
    /\ pc = "inv_loop"
    /\ todo = <<>>
    /\ \E a \in ProceedAnswers(lv.moreopts, prompting) :
         /\ runnext' = a.ans
         /\ pc' = IF a.ans THEN "at_bagit" ELSE "returned"
         /\ obs' = Ended(obs, "inv", lv.moreopts, a)
    /\ UNCHANGED <<root, out, parent, ledger, sel, prompting, nselect, todo,
                   cur, lv, nextId, runs, menu>>

----------------------------------------------------------------------------
(* Packaging: ObjFormatter.run_bagit *)

sha512(c) == [alg |-> "sha512", of |-> c]

\* the payload manifest bagit writes: a digest and a path for each file
BagManifest(alg, fs) ==
    [k |-> "bagmanifest", alg |-> alg,
     rows |-> {[of |-> f.c, path |-> f.p \o <<f.n>>] : f \in Range(fs)}]

\* line 641: bagit.make_bag(inpath, checksums=['md5', 'sha512']): everything
\* in the directory goes below 'data', and the tag files are written
make_bag(t) ==
    LET payload == [i \in DOMAIN walk(t) |-> Under("data", walk(t)[i])]
        tags == <<File(<<>>, "bagit.txt", Bytes(3)),
                  File(<<>>, "bag-info.txt", Bytes(Len(payload))),
                  File(<<>>, "manifest-md5.txt", BagManifest("md5", payload)),
                  File(<<>>, "manifest-sha512.txt", BagManifest("sha512", payload))>>
    IN  tags \o <<File(<<>>, "tagmanifest-md5.txt", BagManifest("md5", tags)),
                  File(<<>>, "tagmanifest-sha512.txt", BagManifest("sha512", tags))>>
        \o payload

\* lines 816-818: nselect -= 1; run_bagit(itemsdir, nselect)
CallBagit ==
    /\ pc = "at_bagit"
    /\ "bagit" \in sel
    /\ nselect' = nselect - 1
    /\ pc' = "bag_begin"
    /\ UNCHANGED <<root, out, parent, ledger, sel, prompting, todo, cur, lv,
                   nextId, runs, runnext, menu, obs>>

\* lines 632-634: the counters; listdir(bagsdir) once
BagBegin ==
    /\ pc = "bag_begin"
    /\ lv' = [stage |-> "bagit", moreopts |-> nselect, validbags |-> 0,
              totalbags |-> 0, runnext4 |-> TRUE, warnings |-> <<>>,
              hist |-> <<>>]
    /\ todo' = listdir(root)
    /\ pc' = "bag_loop"
    /\ obs' = [obs EXCEPT !.stage = "bagit", !.st0 = root]
    /\ UNCHANGED <<root, out, parent, ledger, sel, prompting, nselect, cur,
                   nextId, runs, runnext, menu>>

\* what is recorded of one directory met by the loop of lines 634-646: what
\* it held, whether it looked bagged, the operator's answer and what
\* is_valid() said of the new bag
BagSeen(f, before, bagged, cont, valid) ==
    [obj |-> f, before |-> before, bagged |-> bagged, cont |-> cont,
     valid |-> valid]

\* a slip in lines 645-646: a bag that is not valid is not reported
BagLoop_Silent ==
    /\ pc = "bag_loop"
    /\ todo # <<>>
    /\ todo' = Tail(todo)
    /\ LET f == Head(todo) IN
       IF RootIsDir(root, f)
       THEN \E cont \in (IF LooksBagged(TreeOf(root, f)) THEN BOOLEAN ELSE {TRUE}),
               valid \in menu.valid :
              IF cont
              THEN /\ root' = SetTree(root, f, make_bag(TreeOf(root, f)))
                   /\ lv' = [lv EXCEPT
                         !.totalbags = @ + 1,
                         !.validbags = IF valid THEN @ + 1 ELSE @,
                         !.hist = Append(@, BagSeen(f, TreeOf(root, f),
                                    LooksBagged(TreeOf(root, f)), cont, valid))]
              ELSE /\ root' = root
                   /\ lv' = [lv EXCEPT
                         !.hist = Append(@, BagSeen(f, TreeOf(root, f),
                                    LooksBagged(TreeOf(root, f)), cont, TRUE))]
       ELSE UNCHANGED <<root, lv>>
    /\ UNCHANGED <<out, parent, ledger, pc, sel, prompting, nselect, cur,
                   nextId, runs, runnext, menu, obs>>

\* lines 634-646: the next entry: a directory is bagged, unless it looks
\* bagged and the operator says no; the new bag is asked whether it is valid
\* and is counted or reported
BagLoop ==
    /\ pc = "bag_loop"
    /\ todo # <<>>
    /\ todo' = Tail(todo)
    /\ LET f == Head(todo) IN
       IF RootIsDir(root, f)
       THEN \E cont \in (IF LooksBagged(TreeOf(root, f)) THEN BOOLEAN ELSE {TRUE}),
               valid \in menu.valid :
              IF cont
              THEN /\ root' = SetTree(root, f, make_bag(TreeOf(root, f)))
                   /\ lv' = [lv EXCEPT
                         !.totalbags = @ + 1,
                         !.validbags = IF valid THEN @ + 1 ELSE @,
                         !.warnings = IF valid THEN @ ELSE Append(@, f),
                         !.hist = Append(@, BagSeen(f, TreeOf(root, f),
                                    LooksBagged(TreeOf(root, f)), cont, valid))]
              ELSE /\ root' = root
                   /\ lv' = [lv EXCEPT
                         !.hist = Append(@, BagSeen(f, TreeOf(root, f),
                                    LooksBagged(TreeOf(root, f)), cont, TRUE))]
       ELSE UNCHANGED <<root, lv>>
    /\ UNCHANGED <<out, parent, ledger, pc, sel, prompting, nselect, cur,
                   nextId, runs, runnext, menu, obs>>

\* lines 649-659 and 818-820: run_bagit decides whether to go on, but
\* run_procs does not take what it returns and tests the runnext it had
BagEnd ==
    /\ pc = "bag_loop"
    /\ todo = <<>>
    /\ \E a \in ProceedAnswers(lv.moreopts, prompting) :
         /\ lv' = [lv EXCEPT !.runnext4 = a.ans]
         /\ obs' = Ended(obs, "bagit", lv.moreopts, a)
    /\ pc' = IF runnext THEN "at_tar" ELSE "returned"
    /\ UNCHANGED <<root, out, parent, ledger, sel, prompting, nselect, todo,
                   cur, nextId, runs, runnext, menu>>

----------------------------------------------------------------------------
(* Archiving: ObjFormatter.run_tar *)

\* line 666: path.splitext(tarfolder)[0] + '-tarred'
outfolder(rootname) == rootname.b \o "-tarred"

SibIdx(o, d) == FirstIdx(o, LAMBDA en : en.name = d)
SibExists(o, d) == SibIdx(o, d) # 0

\* the files of directory d beside the batch root
SibFiles(o, d) == IF SibExists(o, d) THEN o[SibIdx(o, d)].files ELSE <<>>

\* lines 667-668: mkdir(outfolder) when it does not exist
mkdir(o, d) == IF SibExists(o, d) THEN o ELSE Append(o, [name |-> d, files |-> <<>>])

\* line 672: join(outfolder, path.splitext(i)[0] + '.tar')
outfile(i) == Nm(i.b, ".tar")

\* a slip in line 673: the test for an existing archive left out
ArchiveExists_Unchecked(o, d, nm) == FALSE

\* line 673: path.exists(outfile)
ArchiveExists(o, d, nm) == \E i \in DOMAIN SibFiles(o, d) : SibFiles(o, d)[i].name = nm

\* lines 679-681: tarfile.open(outfile, 'w'); newtar.add(infile, arcname)
Tar(i, tree) == [k |-> "tar", arcname |-> FullName(i), tree |-> tree]

\* the archive nm written into directory d, in place of one of that name
PutArchive(o, d, nm, c) ==
    [o EXCEPT ![SibIdx(o, d)].files =
        Append(SelectSeq(@, LAMBDA f : f.name # nm), FileEntry(nm, c))]

\* lines 663-669: the counters, the output folder, listdir(tarfolder)
TarBegin ==
    /\ pc = "tar_begin"
    /\ lv' = [stage |-> "tar", moreopts |-> nselect, tarfiles |-> 0,
              alreadytar |-> 0, notfolder |-> 0]
    /\ out' = mkdir(out, outfolder(menu.rootname))
    /\ todo' = listdir(root)
    /\ pc' = "tar_loop"
    /\ obs' = [obs EXCEPT !.stage = "tar", !.st0 = root]
    /\ UNCHANGED <<root, parent, ledger, sel, prompting, nselect, cur, nextId,
                   runs, runnext, menu>>

\* lines 669-684: the next entry: a directory is archived unless its archive
\* file exists; anything else is counted
TarLoop ==
    /\ pc = "tar_loop"
    /\ todo # <<>>
    /\ todo' = Tail(todo)
    /\ LET i == Head(todo)
           d == outfolder(menu.rootname)
       IN  IF RootIsDir(root, i)
           THEN IF ArchiveExists(out, d, outfile(i))
                THEN /\ lv' = [lv EXCEPT !.alreadytar = @ + 1]
                     /\ out' = out
                ELSE /\ out' = PutArchive(out, d, outfile(i), Tar(i, TreeOf(root, i)))
                     /\ lv' = [lv EXCEPT !.tarfiles = @ + 1]
           ELSE /\ lv' = [lv EXCEPT !.notfolder = @ + 1]
                /\ out' = out
    /\ UNCHANGED <<root, parent, ledger, pc, sel, prompting, nselect, cur,
                   nextId, runs, runnext, menu, obs>>

\* lines 685-699: the loop is over; report and decide whether to go on
TarEnd ==
    /\ pc = "tar_loop"
    /\ todo = <<>>
    /\ \E a \in ProceedAnswers(lv.moreopts, prompting) :
         /\ runnext' = a.ans
         /\ pc' = IF a.ans THEN "at_trans" ELSE "returned"
         /\ obs' = Ended(obs, "tar", lv.moreopts, a)
    /\ UNCHANGED <<root, out, parent, ledger, sel, prompting, nselect, todo,
                   cur, lv, nextId, runs, menu>>

----------------------------------------------------------------------------
(* Transfer manifest: ObjFormatter.trans_manifest *)

\* line 710: indirectory + "-tarred"
tarredname(rootname) == FullName(rootname) \o "-tarred"

\* line 714: path.exists(indir), for the batch root or a directory beside it
DirExists(o, rootname, indir) == indir = FullName(rootname) \/ SibExists(o, indir)

\* lines 719-720: "Transfer_%s_%s.csv" % (basename(indir), strftime(...))
TransferName(indir, stamp) == Nm("Transfer_" \o indir \o "_" \o ToString(stamp), ".csv")

Transfer(lines) == [k |-> "transfer", lines |-> lines]

\* line 722: walk(indir): the files of the directory itself, then those of
\* its subdirectories
TransWalk(r, o, rootname, indir) ==
    LET top == IF indir = FullName(rootname)
               THEN SelectSeq(r, LAMBDA en : ~en.isdir)
               ELSE SibFiles(o, indir)
    IN  [i \in DOMAIN top |-> File(<<>>, FullName(top[i].name), top[i].c)]
        \o (IF indir = FullName(rootname) THEN BelowDirs(r) ELSE <<>>)

\* line 726: remove(pathname) in the batch root
RootRemoveAt(r, f) ==
    IF f.p = <<>>
    THEN SelectSeq(r, LAMBDA en : en.isdir \/ FullName(en.name) # f.n)
    ELSE [i \in DOMAIN r |->
            IF r[i].isdir /\ FullName(r[i].name) = f.p[1]
            THEN [r[i] EXCEPT !.tree = RemoveAt(@, Tail(f.p), f.n)]
            ELSE r[i]]

\* line 726: remove(pathname) in directory d beside the batch root
SibRemove(o, d, n) ==
    [o EXCEPT ![SibIdx(o, d)].files = SelectSeq(@, LAMBDA en : FullName(en.name) # n)]

\* a slip in line 728: the digest of an empty read
TransRow_EmptyDigest(f) == <<f.n, sha3hash(Bytes(0))>>

\* lines 728-729: "%s, " % name + "%s\n" % sha3sum
TransRow(f) == <<f.n, sha3hash(f.c)>>

\* line 829: trans_manifest(itemsdir)
CallTrans ==
    /\ pc = "at_trans"
    /\ "trans" \in sel
    /\ pc' = "trans_begin"
    /\ UNCHANGED <<root, out, parent, ledger, sel, prompting, nselect, todo,
                   cur, lv, nextId, runs, runnext, menu, obs>>

\* lines 706-722: the operator takes the default directory or names another;
\* a directory that does not exist ends the stage; else the manifest file is
\* opened 'w' beside the directory and the walk begins
TransBegin ==
    /\ pc = "trans_begin"
    /\ obs' = [obs EXCEPT !.stage = "trans", !.st0 = root]
    /\ \E tardest \in menu.tardest, chosen \in menu.chosen,
          stamp \in {n \in {runs - 1, runs} : n >= 1} :
         LET indir == IF tardest THEN tarredname(menu.rootname) ELSE chosen
             found == DirExists(out, menu.rootname, indir)
             compfile == TransferName(indir, stamp)
         IN  /\ lv' = [stage |-> "trans", tardest |-> tardest, indir |-> indir,
                       found |-> found, compfile |-> compfile,
                       towalk |-> IF found
                                  THEN TransWalk(root, out, menu.rootname, indir)
                                  ELSE <<>>,
                       out0 |-> out, parent0 |-> parent]
             /\ parent' = IF found THEN RootWrite(parent, compfile, Transfer(<<>>))
                          ELSE parent
             /\ pc' = IF found THEN "trans_walk" ELSE "returned"
    /\ UNCHANGED <<root, out, ledger, sel, prompting, nselect, todo, cur,
                   nextId, runs, runnext, menu>>

\* lines 723-729: the next file of the walk: an artifact is removed, any
\* other file gets a row
TransFile ==
    /\ pc = "trans_walk"
    /\ lv.towalk # <<>>
    /\ lv' = [lv EXCEPT !.towalk = Tail(@)]
    /\ LET f == Head(lv.towalk) IN
       IF IsArtifact(f.n)
       THEN /\ IF lv.indir = FullName(menu.rootname)
               THEN root' = RootRemoveAt(root, f) /\ out' = out
               ELSE out' = SibRemove(out, lv.indir, f.n) /\ root' = root
            /\ parent' = parent
       ELSE /\ parent' = RootWrite(parent, lv.compfile,
                   Transfer(Append(RootRead(parent, lv.compfile).lines, TransRow(f))))
            /\ UNCHANGED <<root, out>>
    /\ UNCHANGED <<ledger, pc, sel, prompting, nselect, todo, cur, nextId,
                   runs, runnext, menu, obs>>

\* lines 730-732: the manifest is closed; run_procs returns
TransEnd ==
    /\ pc = "trans_walk"
    /\ lv.towalk = <<>>
    /\ pc' = "returned"
    /\ obs' = [obs EXCEPT !.done = Append(@, "trans")]
    /\ UNCHANGED <<root, out, parent, ledger, sel, prompting, nselect, todo,
                   cur, lv, nextId, runs, runnext, menu>>

----------------------------------------------------------------------------
(* Batches the runs start from *)

\* the name of the i-th object directory of a batch (its local identifier)
ObjName(i) == "obj" \o ToString(i)

\* the ledger row of the object with local identifier id, in verifyHeadrs order
MetaRow(id) ==
    <<"", id, "dept", "pers_" \o id, "coll", "desc", "uri_" \o id, "coll_uri">>

\* the record the Metadata stage writes for id: header and the ledger row
MetaCsv(id) == Csv(<<verifyHeadrs, MetaRow(id)>>)

\* the record of id after an earlier Registration: the first field is set
RegdCsv(id) == Csv(<<verifyHeadrs, SetSysId(<<verifyHeadrs, MetaRow(id)>>, "vtdata_0")[2]>>)

Payload == <<File(<<>>, "f1", Bytes(1))>>

\* a manifest of an earlier make, without the comment line
LegacyManifest == Manifest(<<ManiHeader, ManiRow(1, Nm("old", ""), Payload[1])>>)

\* an object directory as the department or earlier stages leave it
TreeFor(kind, id) ==
    CASE kind = "bare" -> Payload
      [] kind = "meta" -> Payload \o <<File(<<>>, "metadata.csv", MetaCsv(id))>>
      [] kind = "metaxml" ->
            make_rdf(Payload \o <<File(<<>>, "metadata.csv", MetaCsv(id))>>)
      [] kind = "ds" ->
            <<File(<<>>, ".DS_Store", Bytes(0)), File(<<>>, "f1", Bytes(1)),
              File(<<"sub">>, ".DS_Store", Bytes(0)), File(<<"sub">>, "f2", Bytes(2))>>
      [] kind = "locked" ->
            <<File(<<>>, "f1", Bytes(1)), File(<<>>, "f2", Locked(2))>>
      [] kind = "mani" -> Payload \o <<File(<<>>, "manifest.csv", LegacyManifest)>>
      [] kind = "bag" ->
            <<File(<<>>, "bagit.txt", Bytes(3)), File(<<"data">>, "f1", Bytes(1))>>
      [] kind = "metadir" ->
            <<File(<<>>, "f1", Bytes(1)), File(<<>>, "metanotes.txt", Bytes(6)),
              File(<<"metafiles">>, "notes", Bytes(5))>>
      [] kind = "regd" ->
            make_rdf(Payload \o <<File(<<>>, "metadata.csv", RegdCsv(id))>>)
      [] kind = "bagmeta" ->
            <<File(<<>>, "bagit.txt", Bytes(3)),
              File(<<>>, "metadata.csv", RegdCsv(id)),
              File(<<"data">>, "f1", Bytes(1))>>

Batch(n, kinds) ==
    [i \in 1..n |-> DirEntry(Nm(ObjName(i), ""), TreeFor(kinds[i], ObjName(i)))]

Batches(K) == {Batch(n, kinds) : n \in 1..MaxObjs, kinds \in [1..MaxObjs -> K]}

GoodLedger(n) == [hdr |-> verifyHeadrs, rows |-> [i \in 1..n |-> MetaRow(ObjName(i))]]

InitCommon ==
    /\ parent = <<>>
    /\ pc = "idle"
    /\ sel = {}
    /\ prompting = 0
    /\ nselect = 0
    /\ todo = <<>>
    /\ cur = NoName
    /\ lv = NoLocals
    /\ nextId = 0
    /\ runs = 0
    /\ runnext = TRUE
    /\ obs = NewObs(root, out)

----------------------------------------------------------------------------
(* Registration runs: only 'Register Objects' is checked, the operator may  *)
(* ask for pre-packaging, and the process may be killed at any step of     *)
(* Registration.                                                           *)

InitReg ==
    /\ root \in Batches({"bare", "meta", "metaxml"})
    /\ ledger = GoodLedger(Len(root))
    /\ menu = [sels |-> {{"regstr"}}, prompts |-> {0}, prepack |-> BOOLEAN,
               folders |-> {"ok"}, crash |-> {"regstr"},
               metainputs |-> {"ledger.csv"}, idcolumn |-> "Local ID",
               rootname |-> Nm("batch", ""), tardest |-> {TRUE},
               chosen |-> {""}, valid |-> {TRUE},
               maxruns |-> MaxRuns]
    /\ out = <<>>
    /\ InitCommon

NextReg ==
    \/ RunProcs
    \/ AskPrepack
    \/ PreList \/ PreLoop \/ PreCopy \/ PreCopyFile \/ PreThings \/ PrePrune
    \/ PreRename \/ PreEnd
    \/ SkipStage("at_meta", "at_regstr", "meta")
    \/ CallRegister
    \/ RegBegin \/ RegLogHeader \/ RegList \/ RegLoop \/ RegLog \/ RegTrunc
    \/ RegWrite \/ RegRemoveRdf \/ RegMakeRdf \/ RegRename \/ RegEnd
    \/ Return
    \/ Crash

SpecReg == InitReg /\ [][NextReg]_vars

----------------------------------------------------------------------------
(* Properties of Registration *)

\* nm is an identifier gen_ID has handed out
IsSysId(nm) == \E k \in 1..nextId : nm = Nm(gen_ID(k), "")

\* first field of the first data row of the record in tree t
RecordSysId(t) ==
    IF TopExists(t, "metadata.csv") /\ RegReadable(TopRead(t, "metadata.csv").lines)
    THEN TopRead(t, "metadata.csv").lines[2][1]
    ELSE "(no record)"

\* the data rows of the audit log in root r
LogRows(r) ==
    IF RootExists(r, LogName)
    THEN SelectSeq(RootRead(r, LogName).lines, LAMBDA row : row # headrow)
    ELSE <<>>

IsPrefix(s, t) == Len(s) <= Len(t) /\ \A i \in DOMAIN s : s[i] = t[i]

\* C1: Registration is idempotent at the object level: an object directory
\* that already bears a system identifier is never renamed again and gets no
\* further audit row (a Registration run over an already registered batch
\* renames nothing and appends nothing).
C1_RegistrationIdempotent ==
    /\ \A r \in obs.renamed : ~IsSysId(r.from)
    /\ pc \in {"reg_log", "reg_trunc"} => ~IsSysId(cur)

\* C2: no reachable state, a state after an interruption included, has an
\* object directory named by a system identifier whose metadata record does
\* not hold that identifier in its first field.
C2_NeverRenamedButUnupdated ==
    \A i \in DOMAIN root :
        (root[i].isdir /\ IsSysId(root[i].name))
            => RecordSysId(root[i].tree) = root[i].name.b

\* the log's lines in root r (none when there is no log)
LogLines(r) == IF RootExists(r, LogName) THEN RootRead(r, LogName).lines ELSE <<>>

\* a Registration stage has just returned to run_procs for the last time
RegReturned == pc = "returned" /\ obs.stage = "regstr"

\* C9: the audit log is append-only over any sequence of Registration runs:
\* once it exists it stays, every step leaves its earlier lines in place and
\* in order, the header row is only ever its first line, and when a
\* Registration run ends the number of rows it appended equals the number of
\* directories it renamed.
C9_AuditLogAppendOnly ==
    [][ /\ RootExists(root, LogName) =>
            /\ RootExists(root', LogName)
            /\ IsPrefix(LogLines(root), LogLines(root'))
        /\ \A i \in DOMAIN LogLines(root') : LogLines(root')[i] = headrow => i = 1
        /\ RegReturned' =>
            Len(LogRows(root')) - Len(LogRows(obs'.st0))
                = Cardinality(DirNames(root') \ DirNames(obs'.st0))
      ]_vars

\* C9 witness: a Registration run that found a log with rows has ended after
\* renaming a directory
C9_Witness ==
    /\ RegReturned
    /\ Len(LogRows(obs.st0)) >= 1
    /\ DirNames(root) \ DirNames(obs.st0) # {}

\* what C10 says of the object renamed from r.from to r.to, rendering aside
RegisteredAgree(r) ==
    LET t == TreeOf(root, r.to)
        rec == TopRead(t, "metadata.csv").lines
        old == Len(LogRows(obs.st0))
    IN  /\ RootIsDir(root, r.to)
        /\ r.to \notin DirNames(obs.st0)
        /\ \A i \in 1..old : LogRows(root)[i][1] # r.to.b
        /\ RecordSysId(t) = r.to.b
        /\ \E i \in (old + 1)..Len(LogRows(root)) :
              /\ LogRows(root)[i][1] = r.to.b
              /\ LogRows(root)[i][2] = rec[2][2]
              /\ LogRows(root)[i][4] = rec[2][4]

\* the renderings in tree t: every 'metadata.xml', at any depth
Renderings(t) == {t[i] : i \in {j \in DOMAIN t : t[j].n = "metadata.xml"}}

\* C10 as stated: after a Registration run, for every object it registered
\* the directory name, the record's first field and the audit row's system
\* identifier are one fresh identifier, the audit row carries the record's
\* local identifier and person, and no rendering of the earlier record is
\* left anywhere in the object.
C10_RegisteredConsistent ==
    RegReturned =>
        \A r \in obs.renamed :
            /\ RegisteredAgree(r)
            /\ \A f \in Renderings(TreeOf(root, r.to)) : f.c.sysUUID = r.to.b

\* C10 amended: the same, with the rendering clause for the object's own
\* 'metadata.xml' (top level), which is the rendering of the updated record.
C10_RegisteredConsistentTop ==
    RegReturned =>
        \A r \in obs.renamed :
            /\ RegisteredAgree(r)
            /\ \A f \in Renderings(TreeOf(root, r.to)) :
                   f.p = <<>> => f.c.sysUUID = r.to.b

\* C10 witness: a run has registered an object that carried a rendering of
\* its earlier record
C10_Witness ==
    /\ RegReturned
    /\ \E r \in obs.renamed :
          /\ TopExists(TreeOf(obs.st0, r.from), "metadata.xml")
          /\ TopExists(TreeOf(root, r.to), "metadata.xml")

\* the directories of root r without a metadata record
NoRecord(r) == {obj \in DirNames(r) : ~TopExists(TreeOf(r, obj), "metadata.csv")}

\* C11: in Registration a directory of the batch root without a metadata
\* record is passed over: it keeps its name and everything in it, it is not
\* among the directories renamed, no audit row is appended beyond those of
\* the directories with a record, and the stage goes on: when it ends, every
\* directory that had a record has been renamed.
C11_NoRecordSkipped ==
    obs.stage = "regstr" =>
        /\ \A obj \in NoRecord(obs.st0) :
              RootIsDir(root, obj) /\ TreeOf(root, obj) = TreeOf(obs.st0, obj)
        /\ \A r \in obs.renamed : r.from \notin NoRecord(obs.st0)
        /\ Len(LogRows(root)) - Len(LogRows(obs.st0))
              <= Cardinality(DirNames(obs.st0) \ NoRecord(obs.st0))
        /\ RegReturned =>
              /\ Cardinality(obs.renamed)
                    = Cardinality(DirNames(obs.st0) \ NoRecord(obs.st0))
              /\ lv.warned = (IF NoRecord(obs.st0) = {} THEN 0 ELSE 1)

\* C11 witness: a Registration stage has ended over a batch whose listing
\* has a directory without a record ahead of one with a record
C11_Witness ==
    /\ RegReturned
    /\ lv.renamed >= 1
    /\ \E i, j \in DOMAIN obs.st0 :
          /\ i < j
          /\ obs.st0[i].isdir /\ obs.st0[i].name \in NoRecord(obs.st0)
          /\ obs.st0[j].isdir /\ obs.st0[j].name \notin NoRecord(obs.st0)
          /\ RootIsDir(root, obs.st0[i].name)

----------------------------------------------------------------------------
(* Inventory runs: only 'Generate manifest.csv' is checked; the process may *)
(* be killed at any step of Inventory.                                     *)

InitInv ==
    /\ root \in Batches({"bare", "ds", "mani", "bag"})
    /\ ledger = GoodLedger(Len(root))
    /\ menu = [sels |-> {{"inv"}}, prompts |-> {0}, prepack |-> {FALSE},
               folders |-> {"ok"}, crash |-> {"inv"},
               metainputs |-> {"ledger.csv"}, idcolumn |-> "Local ID",
               rootname |-> Nm("batch", ""), tardest |-> {TRUE},
               chosen |-> {""}, valid |-> {TRUE},
               maxruns |-> MaxRuns]
    /\ out = <<>>
    /\ InitCommon

NextInv ==
    \/ RunProcs
    \/ AskPrepack
    \/ SkipStage("at_meta", "at_regstr", "meta")
    \/ SkipStage("at_regstr", "at_inv", "regstr")
    \/ CallInventory
    \/ InvBegin \/ InvLoop \/ InvOpen \/ InvHeader \/ InvFile \/ InvRow \/ InvComment
    \/ InvMove \/ InvEnd
    \/ Return
    \/ Crash

SpecInv == InitInv /\ [][NextInv]_vars

----------------------------------------------------------------------------
(* Properties of Inventory *)

\* tree t has a file 'manifest.csv' at its top
HoldsManifest(t) == \E f \in Range(t) : f.p = <<>> /\ f.n = "manifest.csv"

\* the object's manifest in root r, when it has one
ManifestOf(r, obj) == TopRead(TreeOf(r, obj), "manifest.csv")

\* a manifest with its header, data rows numbered from 1 and the trailing
\* comment line
CompleteManifest(m) ==
    /\ m.k = "manifest"
    /\ Len(m.lines) >= 2
    /\ m.lines[1] = ManiHeader
    /\ m.lines[Len(m.lines)] = ManiComment
    /\ \A i \in 2..(Len(m.lines) - 1) : m.lines[i].t = "row" /\ m.lines[i].no = i - 1

\* C3: at every point of an Inventory run, an interruption at any step
\* included, an object's final manifest name is absent, or holds the manifest
\* it held when the run began, or holds a complete manifest: the header, a
\* row for each of the object's other files, the comment row.
C3_ManifestAtomic ==
    \A obj \in DirNames(root) :
        \/ ~HoldsManifest(TreeOf(root, obj))
        \/ /\ RootIsDir(obs.run0, obj)
           /\ HoldsManifest(TreeOf(obs.run0, obj))
           /\ ManifestOf(root, obj) = ManifestOf(obs.run0, obj)
        \/ /\ CompleteManifest(ManifestOf(root, obj))
           /\ Len(ManifestOf(root, obj).lines) = Len(TreeOf(root, obj)) + 1

\* C3 witness: the process was killed with the temporary manifest written
\* (partly, or wholly and not yet moved) for an object without a manifest
C3_Witness ==
    /\ pc = "idle"
    /\ runs >= 1
    /\ RootExists(root, TempManiName)
    /\ Len(RootRead(root, TempManiName).lines) >= 2
    /\ \E obj \in DirNames(root) : ~HoldsManifest(TreeOf(root, obj))

\* the files of tree t that are not artifacts, in walk order
NonArtifacts(t) == SelectSeq(walk(t), LAMBDA f : ~IsArtifact(f.n))

\* the manifest of an object that held the files fs when it was walked
ExpectedManifest(obj, fs) ==
    Manifest(<<ManiHeader>>
             \o [i \in DOMAIN fs |->
                   [t |-> "row", no |-> i, name |-> fs[i].n, md5 |-> md5(fs[i].c),
                    sha3 |-> sha3hash(fs[i].c),
                    relpath |-> <<FullName(obj)>> \o fs[i].p \o <<fs[i].n>>]]
             \o <<ManiComment>>)

\* the objects this Inventory stage has written a manifest for so far
Inventoried ==
    {obj \in DirNames(root) :
        /\ HoldsManifest(TreeOf(root, obj))
        /\ ~HoldsManifest(TreeOf(obs.st0, obj))}

\* C7: for every object inventoried, with N non-artifact files when it was
\* walked, the manifest holds exactly N rows numbered 1..N in walk order and
\* then one comment row, each row's strong digest is the digest of that
\* file's content, and every artifact file met is gone from disk and has no
\* row.
C7_ManifestRows ==
    lv.stage = "inv" =>
        \A obj \in Inventoried :
            LET fs == NonArtifacts(TreeOf(obs.st0, obj))
                m == ManifestOf(root, obj)
            IN  /\ m = ExpectedManifest(obj, fs)
                /\ Len(m.lines) = Len(fs) + 2
                /\ \A i \in DOMAIN fs : m.lines[i + 1].sha3 = sha3hash(fs[i].c)
                /\ \A i \in DOMAIN fs : ~IsArtifact(m.lines[i + 1].name)
                /\ \A f \in Range(TreeOf(root, obj)) : f.n # ".DS_Store"

\* C7 witness: an object with artifact files, at two depths, has been
\* inventoried
C7_Witness ==
    /\ lv.stage = "inv"
    /\ \E obj \in Inventoried :
          /\ \E f \in Range(TreeOf(obs.st0, obj)) : f.n = ".DS_Store" /\ f.p # <<>>
          /\ Len(NonArtifacts(TreeOf(obs.st0, obj))) = 2

\* the directories of root r that hold a manifest
WithManifest(r) == {obj \in DirNames(r) : HoldsManifest(TreeOf(r, obj))}

\* C8: Inventory leaves every directory that held a manifest when the stage
\* began exactly as it was and does not count it; so over a batch in which
\* every object has a manifest it creates no manifest and changes no file.
C8_ManifestSkipped ==
    lv.stage = "inv" =>
        /\ \A obj \in WithManifest(obs.st0) :
              RootIsDir(root, obj) /\ TreeOf(root, obj) = TreeOf(obs.st0, obj)
        /\ lv.manifiles <= Cardinality(DirNames(obs.st0) \ WithManifest(obs.st0))
        /\ WithManifest(obs.st0) = DirNames(obs.st0) =>
              root = obs.st0 /\ lv.manifiles = 0

\* C8 witness: a second Inventory run over a batch in which every object has
\* a manifest, one of them written by the first run, has ended
C8_Witness ==
    /\ pc = "returned"
    /\ lv.stage = "inv"
    /\ runs = 2
    /\ DirNames(root) # {}
    /\ WithManifest(obs.st0) = DirNames(obs.st0)
    /\ \E obj \in DirNames(root) : CompleteManifest(ManifestOf(root, obj))

----------------------------------------------------------------------------
(* Metadata runs: 'Create min metadata files' is checked, alone or with    *)
(* 'Generate manifest.csv'; the ledger's header may be wrong.              *)

\* the header without its last column
ShortHeader == SubSeq(verifyHeadrs, 1, Len(verifyHeadrs) - 1)

\* the header with its first two columns exchanged
SwappedHeader == <<verifyHeadrs[2], verifyHeadrs[1]>> \o SubSeq(verifyHeadrs, 3, Len(verifyHeadrs))

\* the cells of row under header hdr, given the row under verifyHeadrs
CellsFor(hdr, row) == [i \in DOMAIN hdr |-> row[ColIdx(verifyHeadrs, hdr[i])]]

\* a ledger with header hdr: a row for each of n objects and a row for an
\* object that is not in the batch
LedgerWith(hdr, n) ==
    [hdr |-> hdr,
     rows |-> [i \in 1..(n + 1) |->
                 CellsFor(hdr, MetaRow(IF i <= n THEN ObjName(i) ELSE "absent"))]]

InitMeta ==
    /\ root \in Batches({"bare", "metaxml", "bag"})
    /\ ledger \in {LedgerWith(h, Len(root)) : h \in {verifyHeadrs, ShortHeader, SwappedHeader}}
    /\ menu = [sels |-> {{"meta"}, {"meta", "inv"}}, prompts |-> {0, 1},
               prepack |-> {FALSE}, folders |-> {"ok"}, crash |-> {},
               metainputs |-> {"ledger.csv"}, idcolumn |-> "Local ID",
               rootname |-> Nm("batch", ""), tardest |-> {TRUE},
               chosen |-> {""}, valid |-> {TRUE},
               maxruns |-> MaxRuns]
    /\ out = <<>>
    /\ InitCommon

NextMeta ==
    \/ RunProcs
    \/ AskPrepack
    \/ CallMeta
    \/ MetaBegin \/ MetaRowStep \/ MetaWrite \/ MetaRdf \/ MetaEnd
    \/ SkipStage("at_regstr", "at_inv", "regstr")
    \/ CallInventory
    \/ InvBegin \/ InvLoop \/ InvOpen \/ InvHeader \/ InvFile \/ InvRow \/ InvComment
    \/ InvMove \/ InvEnd
    \/ Return

SpecMeta == InitMeta /\ [][NextMeta]_vars

----------------------------------------------------------------------------
(* Properties of the Metadata stage *)

\* the ledger's header is the required list: same names, same order
ExactHeader == ledger.hdr = verifyHeadrs

\* the object directories of root r that some ledger row names
Named(r) ==
    {obj \in DirNames(r) :
        \E i \in DOMAIN ledger.rows :
            /\ ColIdx(ledger.hdr, "Local ID") # 0
            /\ obj = Nm(ledger.rows[i][ColIdx(ledger.hdr, "Local ID")], "")}

\* C4: when the ledger's header is not exactly the required eight-field list,
\* the Metadata stage writes no record and no rendering (the batch root stays
\* as it was when the stage began) and the counts it reports are (0, 0).
C4_BadHeaderWritesNothing ==
    ~ExactHeader =>
        /\ lv.stage = "meta" => root = obs.st0 /\ lv.nfiles = 0 /\ lv.rfiles = 0
        /\ obs.counts # <<>> => obs.counts = <<0, 0>>

\* C4 witness: the stage has reported its counts for a ledger with a wrong
\* header that names an object without a record
C4_Witness ==
    /\ ~ExactHeader
    /\ obs.counts = <<0, 0>>
    /\ \E obj \in Named(root) : ~TopExists(TreeOf(root, obj), "metadata.csv")

\* C5: in a run whose header check has failed, nothing of the batch is
\* modified, renamed, inventoried, packaged or archived by that run.
C5_RejectedWholesale ==
    obs.rejected => Dirs(root) = Dirs(obs.run0) /\ out = obs.out0

----------------------------------------------------------------------------
(* Metadata runs over objects that have a record: only 'Create min metadata *)
(* files' is checked and the ledger's header is right; objects may hold    *)
(* the record of an earlier Registration, and may look like bags.          *)

InitOver ==
    /\ root \in Batches({"bare", "regd", "bagmeta"})
    /\ ledger = LedgerWith(verifyHeadrs, Len(root))
    /\ menu = [sels |-> {{"meta"}}, prompts |-> {0}, prepack |-> {FALSE},
               folders |-> {"ok"}, crash |-> {},
               metainputs |-> {"ledger.csv"}, idcolumn |-> "Local ID",
               rootname |-> Nm("batch", ""), tardest |-> {TRUE},
               chosen |-> {""}, valid |-> {TRUE},
               maxruns |-> MaxWholeRuns]
    /\ out = <<>>
    /\ InitCommon

NextOver ==
    \/ RunProcs
    \/ AskPrepack
    \/ CallMeta
    \/ MetaBegin \/ MetaRowStep \/ MetaWrite \/ MetaRdf \/ MetaEnd
    \/ Return

SpecOver == InitOver /\ [][NextOver]_vars

\* the passes of the row loop made so far in this Metadata stage
Hist == IF lv.stage = "meta" THEN lv.hist ELSE <<>>

\* the pass i has been carried through: its record, if any, is written
Carried(i) == i < Len(Hist) \/ pc \notin {"meta_write", "meta_rdf"}

\* the record of object obj in root r
RecordOf(r, obj) == TopRead(TreeOf(r, obj), "metadata.csv")

C13_SkipPrecedence ==
    \A i \in DOMAIN Hist :
        /\ ~Hist[i].exists => ~Hist[i].bagq /\ ~Hist[i].owq
        /\ (Hist[i].bagq /\ Hist[i].skipbag) => ~Hist[i].owq

----------------------------------------------------------------------------
(* Pre-packaging runs: the operator may ask for pre-packaging in the first *)
(* run, 'Tar Objects' is checked, and the process may be killed at any     *)
(* step of pre_pack.                                                       *)

InitPre ==
    /\ root \in Batches({"meta", "ds", "metadir"})
    /\ ledger = GoodLedger(0)
    /\ menu = [sels |-> {{"tar"}}, prompts |-> {0}, prepack |-> BOOLEAN,
               folders |-> {"ok"}, crash |-> {"prepack"},
               metainputs |-> {"ledger.csv"}, idcolumn |-> "Local ID",
               rootname |-> Nm("batch", ""), tardest |-> {TRUE},
               chosen |-> {""}, valid |-> {TRUE},
               maxruns |-> MaxRuns]
    /\ out = <<>>
    /\ InitCommon

NextPre ==
    \/ RunProcs
    \/ AskPrepack
    \/ PreList \/ PreLoop \/ PreCopy \/ PreCopyFile \/ PreThings \/ PrePrune
    \/ PreRename \/ PreEnd
    \/ SkipStage("at_meta", "at_regstr", "meta")
    \/ SkipStage("at_regstr", "at_inv", "regstr")
    \/ SkipStage("at_inv", "at_bagit", "inv")
    \/ SkipStage("at_bagit", "at_tar", "bagit")
    \/ CallTar
    \/ TarBegin \/ TarLoop \/ TarEnd
    \/ Return
    \/ Crash

SpecPre == InitPre /\ [][NextPre]_vars

----------------------------------------------------------------------------
(* Properties of Pre-packaging *)

\* file f of the object is in tree t below the directory path pre
KeptBelow(t, pre, f) ==
    \E g \in Range(t) : g.p = pre \o f.p /\ g.n = f.n /\ g.c = f.c

\* the files the object obj had when pre_pack began
Original(obj) == Range(TreeOf(obs.st0, obj))

\* C14: pre_pack is crash-safe: at every state of it, a state an interruption
\* leaves included, every file an object had is still there with its
\* content, at its place, in the staging copy or in the nested directory;
\* and the steps come in the order copy, prune, rename: as long as the copy
\* is not whole nothing of the original has gone, and the nested directory
\* appears only as the whole copy.
C14_PrePackCrashSafe ==
    obs.stage = "prepack" =>
        \A obj \in DirNames(obs.st0) :
            LET t == TreeOf(root, obj)
                whole(pre) == \A f \in Original(obj) : KeptBelow(t, pre, f)
            IN  /\ RootIsDir(root, obj)
                /\ \A f \in Original(obj) :
                      \/ KeptBelow(t, <<>>, f)
                      \/ KeptBelow(t, <<TempDir>>, f)
                      \/ KeptBelow(t, <<FullName(obj)>>, f)
                /\ (\E f \in Original(obj) : ~KeptBelow(t, <<>>, f)) =>
                      whole(<<TempDir>>) \/ whole(<<FullName(obj)>>)
                /\ TopDirExists(t, FullName(obj)) => whole(<<FullName(obj)>>)

\* C14 witness: the process was killed while an object was being pruned: a
\* file of it is gone from its place and the copy is not yet renamed
C14_Witness ==
    /\ pc = "idle"
    /\ obs.stage = "prepack"
    /\ \E obj \in DirNames(obs.st0) :
          /\ \E f \in Original(obj) : ~KeptBelow(TreeOf(root, obj), <<>>, f)
          /\ \E f \in Original(obj) : f.p = <<>> /\ ~HasMeta(f.n)
                                      /\ KeptBelow(TreeOf(root, obj), <<>>, f)
          /\ TopDirExists(TreeOf(root, obj), TempDir)

\* the name of the entry at the top of the object that holds file f
TopEntry(f) == IF f.p = <<>> THEN f.n ELSE f.p[1]

\* pre_pack has returned and no later stage has begun
PrePacked == obs.stage = "prepack" /\ "prepack" \in Range(obs.done)

\* C15: after pre_pack the top of an object holds the nested directory named
\* as the object, a full copy of what the object held, and every original
\* entry at the top, file or directory, whose name contains 'meta'; nothing
\* else.
C15_PrePackKeepsMarked ==
    PrePacked =>
        \A obj \in DirNames(obs.st0) :
            Range(TreeOf(root, obj))
                = {Under(FullName(obj), f) : f \in Original(obj)}
                  \cup {f \in Original(obj) : HasMeta(TopEntry(f))}

----------------------------------------------------------------------------
(* Archiving runs: only 'Tar Objects' is checked.  The batch may hold a    *)
(* file beside its directories, directory names may differ in their        *)
(* extension only, and the output folder may exist with an archive in it.  *)

\* the i-th directory name: its own stem, or the first stem with an extension
TarNames(i) == {Nm(ObjName(i), ""), Nm(ObjName(1), ".v" \o ToString(i))}

TarBatches ==
    {[i \in 1..(n + 1) |->
        IF i <= n THEN DirEntry(names[i], TreeFor(kinds[i], ObjName(i)))
        ELSE FileEntry(Nm("notes", ".txt"), Bytes(4))] :
     n \in 1..MaxObjs,
     names \in {f \in [1..MaxObjs -> UNION {TarNames(i) : i \in 1..MaxObjs}] :
                  \A i \in 1..MaxObjs : f[i] \in TarNames(i)},
     kinds \in [1..MaxObjs -> {"bare", "bag"}]}

\* an archive of the first object made from earlier contents
OldArchive == FileEntry(Nm(ObjName(1), ".tar"), Tar(Nm(ObjName(1), ""), <<>>))

InitTar ==
    /\ root \in TarBatches
    /\ ledger = GoodLedger(0)
    /\ menu = [sels |-> {{"tar"}}, prompts |-> {0}, prepack |-> {FALSE},
               folders |-> {"ok"}, crash |-> {},
               metainputs |-> {"ledger.csv"}, idcolumn |-> "Local ID",
               rootname |-> Nm("batch", ""), tardest |-> {TRUE},
               chosen |-> {""}, valid |-> {TRUE},
               maxruns |-> MaxRuns]
    /\ out \in {<<>>, <<[name |-> outfolder(menu.rootname), files |-> <<>>]>>,
                <<[name |-> outfolder(menu.rootname), files |-> <<OldArchive>>]>>}
    /\ InitCommon

NextTar ==
    \/ RunProcs
    \/ AskPrepack
    \/ SkipStage("at_meta", "at_regstr", "meta")
    \/ SkipStage("at_regstr", "at_inv", "regstr")
    \/ SkipStage("at_inv", "at_bagit", "inv")
    \/ SkipStage("at_bagit", "at_tar", "bagit")
    \/ CallTar
    \/ TarBegin \/ TarLoop \/ TarEnd
    \/ Return

SpecTar == InitTar /\ [][NextTar]_vars

----------------------------------------------------------------------------
(* Properties of Archiving *)

\* the archive files in the output folder of o
Archives(o) == Range(SibFiles(o, outfolder(menu.rootname)))

\* the directories of root r whose archive file is among the files fs
Archived(r, fs) == {i \in DirNames(r) : \E f \in fs : f.name = Nm(i.b, ".tar")}

\* what C6 says of each state of an Archiving stage
TarCounted ==
    lv.stage = "tar" =>
        /\ Archives(obs.out0) \subseteq Archives(out)
        /\ lv.tarfiles = Cardinality(Archives(out) \ Archives(obs.out0))
        /\ pc = "returned" =>
              /\ lv.tarfiles + lv.alreadytar = Cardinality(DirNames(root))
              /\ Archived(root, Archives(out)) = DirNames(root)
        /\ Archived(root, Archives(obs.out0)) = DirNames(root) =>
              lv.tarfiles = 0 /\ Archives(out) = Archives(obs.out0)

\* C6: Archiving never overwrites: no step changes or removes an archive
\* that is in the output folder, whether it was there when the stage began
\* or was written earlier in the stage; a directory is counted as archived
\* or as already archived, never both; and a stage that finds the archive
\* file of every directory present creates none, which is what a second run
\* right after a first finds.
C6_ArchiveNeverOverwritten ==
    /\ []TarCounted
    /\ [][Archives(out) \subseteq Archives(out')]_vars

\* C6 witness: a second Archiving run, after one that created an archive,
\* has ended having created none and counted every directory as archived
C6_Witness ==
    /\ pc = "returned"
    /\ lv.stage = "tar"
    /\ runs = 2
    /\ lv.tarfiles = 0
    /\ lv.alreadytar = Cardinality(DirNames(root))
    /\ \E f \in Archives(out) : f.c.tree # <<>>

\* the archive file of directory i among the files fs
ArchiveOf(fs, i) == {f \in fs : f.name = Nm(i.b, ".tar")}

\* C16: when Archiving has ended, every directory of the source has its own
\* archive file in the output folder, named after it and holding what the
\* directory holds (or, by C6, what was archived before the stage); two
\* directories never share an archive file, so the directories counted as
\* already archived are those whose archive was there before the stage; and
\* what is no directory has no archive.
C16_OneArchiveEach ==
    (lv.stage = "tar" /\ pc = "returned") =>
        /\ \A i \in DirNames(root) :
              \E f \in ArchiveOf(Archives(out), i) :
                  f \in Archives(obs.out0) \/ f.c = Tar(i, TreeOf(root, i))
        /\ \A i, j \in DirNames(root) :
              i # j => ArchiveOf(Archives(out), i) # ArchiveOf(Archives(out), j)
        /\ lv.alreadytar = Cardinality(Archived(root, Archives(obs.out0)))
        /\ Cardinality(Archives(out)) >= Cardinality(DirNames(root))
        /\ \A i \in DOMAIN root :
              ~root[i].isdir => ArchiveOf(Archives(out), root[i].name) = {}

----------------------------------------------------------------------------
(* Transfer runs: 'Transfer Manifest' is checked, alone or with 'Tar        *)
(* Objects'; the batch root's name may hold a dot; the operator takes the  *)
(* default directory or names the batch root, another directory, or none.  *)

RootNames == {Nm("batch", ""), Nm("batch", ".v1")}

\* a directory beside the batch root that the operator may name
Elsewhere ==
    [name |-> "elsewhere",
     files |-> <<FileEntry(Nm(".DS_Store", ""), Bytes(0)),
                 FileEntry(Nm("x", ".tar"), Bytes(7))>>]

InitTrans ==
    /\ root \in Batches({"bare", "ds"})
    /\ ledger = GoodLedger(0)
    /\ menu \in {[sels |-> {{"tar", "trans"}, {"trans"}}, prompts |-> {0},
                  prepack |-> {FALSE}, folders |-> {"ok"}, crash |-> {},
                  metainputs |-> {"ledger.csv"}, idcolumn |-> "Local ID",
                  rootname |-> rn, tardest |-> BOOLEAN,
                  chosen |-> {"", FullName(rn), "elsewhere"},
                  valid |-> {TRUE},
               maxruns |-> MaxRuns] : rn \in RootNames}
    /\ out \in {<<>>, <<Elsewhere>>,
                <<[name |-> tarredname(menu.rootname), files |-> <<OldArchive>>]>>}
    /\ InitCommon

NextTrans ==
    \/ RunProcs
    \/ AskPrepack
    \/ SkipStage("at_meta", "at_regstr", "meta")
    \/ SkipStage("at_regstr", "at_inv", "regstr")
    \/ SkipStage("at_inv", "at_bagit", "inv")
    \/ SkipStage("at_bagit", "at_tar", "bagit")
    \/ SkipStage("at_tar", "at_trans", "tar")
    \/ CallTar
    \/ TarBegin \/ TarLoop \/ TarEnd
    \/ CallTrans
    \/ TransBegin \/ TransFile \/ TransEnd
    \/ Return

SpecTrans == InitTrans /\ [][NextTrans]_vars

----------------------------------------------------------------------------
(* Properties of the Transfer manifest *)

\* the rows of the manifest file the stage writes
TransRows == RootRead(parent, lv.compfile).lines

\* C17: in a run with Archiving and the Transfer manifest, the operator
\* taking the default, the directory the Transfer manifest enumerates is the
\* directory Archiving made and wrote into, whatever the source is named, and
\* the manifest written lists the archives in it.
C17_LedgersTheArchives ==
    (lv.stage = "trans" /\ lv.tardest /\ "tar" \in Range(obs.done)) =>
        /\ lv.indir = outfolder(menu.rootname)
        /\ lv.found
        /\ pc = "returned" =>
              {r[1] : r \in Range(TransRows)} = {FullName(f.name) : f \in Archives(out)}

\* what the walk of the enumerated directory met, as it was when the stage
\* began, artifacts left out
Enumerated ==
    SelectSeq(TransWalk(obs.st0, lv.out0, menu.rootname, lv.indir),
              LAMBDA f : f.n # ".DS_Store")

\* C18: the Transfer manifest stage writes one row, name and strong digest
\* of the content, for each file below the enumerated directory that is no
\* artifact, in walk order, into one file in the directory above it; no
\* other file there is touched, the manifest does not list itself, and below
\* the enumerated directory nothing changes but artifacts, which are gone at
\* the end.
C18_TransferRows ==
    (lv.stage = "trans" /\ lv.found) =>
        /\ IsPrefix(TransRows, [i \in DOMAIN Enumerated |->
                 <<Enumerated[i].n, [alg |-> "sha3_256", of |-> Enumerated[i].c]>>])
        /\ pc = "returned" => Len(TransRows) = Len(Enumerated)
        /\ \A r \in Range(TransRows) : r[1] # FullName(lv.compfile)
        /\ {en.name : en \in Range(parent)}
              = {en.name : en \in Range(lv.parent0)} \cup {lv.compfile}
        /\ \A en \in Range(lv.parent0) : en.name # lv.compfile => en \in Range(parent)
        /\ SelectSeq(TransWalk(root, out, menu.rootname, lv.indir),
                     LAMBDA f : f.n # ".DS_Store") = Enumerated
        /\ pc = "returned" =>
              TransWalk(root, out, menu.rootname, lv.indir) = Enumerated
        /\ lv.indir # FullName(menu.rootname) => root = obs.st0
        /\ \A d \in Range(lv.out0) : d.name # lv.indir => d \in Range(out)

\* C18 witness: the batch root itself was enumerated; artifacts at two
\* depths are gone and the manifest of an earlier run is still beside the
\* new one
C18_Witness ==
    /\ lv.stage = "trans" /\ lv.found /\ pc = "returned"
    /\ lv.indir = FullName(menu.rootname)
    /\ Len(TransRows) >= 2
    /\ Len(TransWalk(obs.st0, lv.out0, menu.rootname, lv.indir)) > Len(Enumerated) + 1
    /\ Len(parent) = 2

----------------------------------------------------------------------------
(* Whole runs: any of the stages checked, with or without pre-packaging and *)
(* prompting.                                                              *)

AllStages == {StageOrder[i] : i \in DOMAIN StageOrder}

\* the selections of check boxes the runs are made with
Selections ==
    {AllStages, {"meta", "inv", "tar"}, {"regstr", "bagit"}}

Init ==
    /\ root \in Batches({"bare"})
    /\ ledger = GoodLedger(Len(root))
    /\ menu = [sels |-> Selections, prompts |-> {0, 1}, prepack |-> BOOLEAN,
               folders |-> {"ok"}, crash |-> {},
               metainputs |-> {"ledger.csv"}, idcolumn |-> "Local ID",
               rootname |-> Nm("batch", ""), tardest |-> {TRUE},
               chosen |-> {""}, valid |-> {TRUE},
               maxruns |-> MaxWholeRuns]
    /\ out = <<>>
    /\ InitCommon

Next ==
    \/ RunProcs
    \/ AskPrepack
    \/ PreList \/ PreLoop \/ PreCopy \/ PreCopyFile \/ PreThings \/ PrePrune
    \/ PreRename \/ PreEnd
    \/ SkipStage("at_meta", "at_regstr", "meta")
    \/ CallMeta
    \/ MetaBegin \/ MetaRowStep \/ MetaWrite \/ MetaRdf \/ MetaEnd
    \/ SkipStage("at_regstr", "at_inv", "regstr")
    \/ CallRegister
    \/ RegBegin \/ RegLogHeader \/ RegList \/ RegLoop \/ RegLog \/ RegTrunc
    \/ RegWrite \/ RegRemoveRdf \/ RegMakeRdf \/ RegRename \/ RegEnd
    \/ SkipStage("at_inv", "at_bagit", "inv")
    \/ CallInventory
    \/ InvBegin \/ InvLoop \/ InvOpen \/ InvHeader \/ InvFile \/ InvRow \/ InvComment
    \/ InvMove \/ InvEnd
    \/ SkipStage("at_bagit", "at_tar", "bagit")
    \/ CallBagit
    \/ BagBegin \/ BagLoop \/ BagEnd
    \/ SkipStage("at_tar", "at_trans", "tar")
    \/ CallTar
    \/ TarBegin \/ TarLoop \/ TarEnd
    \/ SkipStage("at_trans", "returned", "trans")
    \/ CallTrans
    \/ TransBegin \/ TransFile \/ TransEnd
    \/ Return

Spec == Init /\ [][Next]_vars

----------------------------------------------------------------------------
(* Properties of whole runs *)

\* C19: no stage deletes an object: in every state of a run the batch root
\* holds as many object directories as when the run began, so it does after
\* any sequence of stages and runs; and Archiving leaves the batch root, its
\* directories and what they hold, as it found it.
C19_NoObjectDeleted ==
    /\ Len(Dirs(root)) = Len(Dirs(obs.run0))
    /\ lv.stage = "tar" => root = obs.st0

\* C19 witness: a run that pre-packed, registered, bagged and archived two
\* objects has ended
C19_Witness ==
    /\ pc = "returned"
    /\ Len(Dirs(root)) >= 2
    /\ Cardinality(obs.renamed) >= 2
    /\ {"prepack", "bagit", "tar"} \subseteq Range(obs.done)
    /\ \E f \in Archives(out) : f.c.tree # <<>>

\* the place of a stage in the fixed order, pre_pack first
Ord(st) == IF st = "prepack" THEN 0
           ELSE CHOOSE i \in DOMAIN StageOrder : StageOrder[i] = st

\* the program points inside each stage
StagePcs ==
    [prepack |-> {"pre_list", "pre_loop", "pre_copy", "pre_copying", "pre_prune"},
     meta |-> {"meta_begin", "meta_loop", "meta_write", "meta_rdf"},
     regstr |-> {"reg_begin", "reg_loghdr", "reg_list", "reg_loop", "reg_log",
                 "reg_trunc", "reg_write", "reg_rmrdf", "reg_rdf", "reg_rename"},
     inv |-> {"inv_begin", "inv_loop", "inv_open", "inv_header", "inv_walk", "inv_sha3",
              "inv_move"},
     bagit |-> {"bag_begin", "bag_loop"},
     tar |-> {"tar_begin", "tar_loop"},
     trans |-> {"trans_begin", "trans_walk"}]

\* the stage whose loop has ended has gone through all it listed
Exhausted ==
    /\ todo = <<>>
    /\ lv.stage = "meta" => lv.rows = <<>>
    /\ lv.stage = "trans" => lv.towalk = <<>>

\* C20: the stages of a run come one after the other in the fixed order
\* pre_pack, Metadata, Registration, Inventory, Packaging, Archiving,
\* Transfer manifest: while a stage runs, it is checked (or is the pre_pack
\* the operator asked for), it has not run before in this run, every stage
\* that has run comes before it in the order and has ended over its whole
\* listing, and every checked stage that comes before it has run; a stage
\* that is not checked never runs.
C20_StagesInOrder ==
    pc # "idle" =>
        /\ \A i, j \in DOMAIN obs.done : i < j => Ord(obs.done[i]) < Ord(obs.done[j])
        /\ Range(obs.done) \subseteq sel \cup {"prepack"}
        /\ lv.stage \in Range(obs.done) => Exhausted
        /\ \A st \in DOMAIN StagePcs :
              pc \in StagePcs[st] =>
                  /\ st = "prepack" \/ st \in sel
                  /\ st \notin Range(obs.done)
                  /\ \A d \in Range(obs.done) : Ord(d) < Ord(st)
                  /\ \A q \in sel : Ord(q) < Ord(st) => q \in Range(obs.done)

\* C20 witness: a run with every stage checked and pre_pack asked for has
\* ended after all seven
C20_Witness ==
    /\ pc = "returned"
    /\ sel = AllStages
    /\ obs.done = <<"prepack">> \o StageOrder

\* the stages that end with the proceed decision
Deciding == {"meta", "regstr", "inv", "bagit", "tar"}

\* C26: in interactive mode, when the operator answers no to the proceed
\* question put at the end of Metadata, Registration, Inventory, Packaging or
\* Archiving, no later stage is executed in that run: that stage is the last
\* one of the run and run_procs returns.
C26_NoEndsTheRun ==
    \A i \in DOMAIN obs.proceed :
        (obs.proceed[i].stage \in Deciding /\ obs.proceed[i].asked
         /\ ~obs.proceed[i].ans) =>
            /\ obs.done[Len(obs.done)] = obs.proceed[i].stage
            /\ pc \in {"returned", "idle"}

\* the checked stages that come after st in the fixed order
Later(st) == {q \in sel : Ord(q) > Ord(st)}

\* C30: the number run_procs passes to a stage is the number of checked
\* stages that come later in the fixed order; a stage shows its acknowledge
\* message, and no proceed question, exactly when no checked stage comes
\* after it.
C30_RemainingStages ==
    pc # "idle" =>
        /\ lv.stage \in Deciding => lv.moreopts = Cardinality(Later(lv.stage))
        /\ \A i \in DOMAIN obs.proceed :
              LET e == obs.proceed[i] IN
              /\ e.moreopts = Cardinality(Later(e.stage))
              /\ e.ack <=> Later(e.stage) = {}
              /\ e.ack => ~e.asked
              /\ (e.asked \/ e.ans) => Later(e.stage) # {}

\* C30 witness: a run of Metadata, Inventory and Archiving has ended: the
\* first two put the proceed question, the last one only acknowledged
C30_Witness ==
    /\ pc = "returned"
    /\ sel = {"meta", "inv", "tar"}
    /\ Len(obs.proceed) = 3
    /\ obs.proceed[1].asked /\ obs.proceed[1].moreopts = 2
    /\ obs.proceed[2].asked /\ obs.proceed[2].moreopts = 1
    /\ obs.proceed[3].ack /\ obs.proceed[3].moreopts = 0

\* C28: within one Registration run each object is registered at most once:
\* the renames of the run start from distinct directories that were in the
\* batch root when the stage began, no directory the run has renamed is
\* renamed again or still waits in the listing, and the renames and the log
\* rows of the run are no more than the directories at the start.
C28_RegisteredOnce ==
    lv.stage = "regstr" =>
        /\ \A a, b \in obs.renamed :
              /\ a.from = b.from => a = b
              /\ a.to # b.from
              /\ a.from \in {obs.st0[i].name : i \in {j \in DOMAIN obs.st0 : obs.st0[j].isdir}}
              /\ a.to \notin {todo[i] : i \in DOMAIN todo}
        /\ lv.renamed = Cardinality(obs.renamed)
        /\ lv.renamed <= Len(SelectSeq(obs.st0, LAMBDA en : en.isdir))
        /\ Len(obs.logged) <= Len(SelectSeq(obs.st0, LAMBDA en : en.isdir))

\* C28 witness: a Registration run has renamed two directories and ended
C28_Witness ==
    /\ pc = "returned"
    /\ lv.stage = "regstr"
    /\ lv.renamed = 2
    /\ Cardinality(obs.renamed) = 2
    /\ \A a \in obs.renamed : RootIsDir(root, a.to) /\ ~RootExists(root, a.from)

\* the manifests on disk: the temporary one, and those of the objects
Manifests ==
    {root[i].c : i \in {j \in DOMAIN root : ~root[j].isdir /\ root[j].name = TempManiName}}
    \cup {f.c : f \in UNION {Range(root[i].tree) : i \in {j \in DOMAIN root : root[j].isdir}}
           \cap {f \in UNION {Range(root[i].tree) : i \in {j \in DOMAIN root : root[j].isdir}} :
                    f.p = <<>> /\ f.n = "manifest.csv"}}

\* no object directory holds a file named as the temporary manifest, and no
\* manifest has a row for the temporary manifest or for a manifest
TempKeptOut ==
    /\ \A i \in DOMAIN root :
          root[i].isdir => \A f \in Range(root[i].tree) : f.n # FullName(TempManiName)
    /\ \A m \in Manifests :
          \A k \in DOMAIN m.lines :
              m.lines[k].t = "row" =>
                  m.lines[k].name \notin {FullName(TempManiName), "manifest.csv"}

\* C29: the temporary manifest is made in the batch root, outside every
\* object directory: at no point of an Inventory run does an object directory
\* hold it, no manifest has a row for it or for the manifest itself, and
\* when the stage has completed normally no temporary manifest is left in
\* the batch root.
C29_TempManifestOutside ==
    /\ TempKeptOut
    /\ (pc = "returned" /\ "inv" \in Range(obs.done)) => ~RootExists(root, TempManiName)

----------------------------------------------------------------------------
(* Inventory and Archiving runs over batches with files the program may not *)
(* read, while another process may write to a file.                        *)

InitHash ==
    /\ root \in Batches({"bare", "locked"})
    /\ ledger = GoodLedger(Len(root))
    /\ menu = [sels |-> {{"inv", "tar"}}, prompts |-> {0}, prepack |-> {FALSE},
               folders |-> {"ok"}, crash |-> {},
               metainputs |-> {"ledger.csv"}, idcolumn |-> "Local ID",
               rootname |-> Nm("batch", ""), tardest |-> {TRUE},
               chosen |-> {""}, valid |-> {TRUE},
               maxruns |-> MaxWholeRuns]
    /\ out = <<>>
    /\ InitCommon

NextHash ==
    \/ RunProcs
    \/ AskPrepack
    \/ SkipStage("at_meta", "at_regstr", "meta")
    \/ SkipStage("at_regstr", "at_inv", "regstr")
    \/ CallInventory
    \/ InvBegin \/ InvLoop \/ InvOpen \/ InvHeader \/ InvFile \/ InvRow \/ InvComment
    \/ InvMove \/ InvEnd
    \/ Modify
    \/ SkipStage("at_bagit", "at_tar", "bagit")
    \/ CallTar
    \/ TarBegin \/ TarLoop \/ TarEnd
    \/ SkipStage("at_trans", "returned", "trans")
    \/ Return

SpecHash == InitHash /\ [][NextHash]_vars

\* C24: both digests of a manifest row are digests of one and the same
\* content, also when the file changes while the stage runs (the file is
\* read once for the two of them).
C24_DigestsOfOneRead ==
    \A m \in Manifests :
        \A k \in DOMAIN m.lines :
            m.lines[k].t = "row" => m.lines[k].md5.of = m.lines[k].sha3.of

\* the first object of batch root r with a file that may not be read, 0 when
\* there is none
FirstLocked(r) ==
    IF \E i \in DOMAIN r : r[i].isdir /\ \E f \in Range(r[i].tree) : f.c.k = "locked"
    THEN CHOOSE i \in DOMAIN r :
            /\ r[i].isdir /\ \E f \in Range(r[i].tree) : f.c.k = "locked"
            /\ \A j \in 1..(i-1) :
                  ~(r[j].isdir /\ \E f \in Range(r[j].tree) : f.c.k = "locked")
    ELSE 0

\* object directory en has a manifest that ends with the comment line
Completed(en) ==
    \E f \in Range(en.tree) :
        /\ f.p = <<>> /\ f.n = "manifest.csv"
        /\ f.c.lines # <<>>
        /\ f.c.lines[Len(f.c.lines)].t = "comment"

\* C25: a file that may not be read is not passed over by Inventory: the
\* error leaves the stage at that object, which gets no manifest.csv, no
\* later object gets one, Inventory does not complete and no later stage
\* runs in the run; the manifests of the objects before it are complete and
\* stay.
C25_UnreadableStopsTheRun ==
    LET k == FirstLocked(obs.run0) IN
    k # 0 =>
        /\ "inv" \notin Range(obs.done)
        /\ obs.stage \in {"none", "inv"}
        /\ out = obs.out0
        /\ pc \notin {"tar_begin", "tar_loop", "at_tar", "at_trans"}
        /\ \A i \in k..Len(obs.run0) :
              root[i].isdir =>
                  \A f \in Range(root[i].tree) : ~(f.p = <<>> /\ f.n = "manifest.csv")
        /\ pc = "raised" =>
              /\ cur = obs.run0[k].name
              /\ todo = [i \in 1..(Len(obs.run0) - k) |-> obs.run0[k + i].name]
        /\ (pc = "raised" \/ (pc = "idle" /\ obs.stage = "inv")) =>
              \A i \in 1..(k-1) : Completed(root[i])

\* C25 witness: the run has ended at the second object, whose second file
\* may not be read; the first object has its manifest, and the temporary
\* manifest holds the row of the file read before the error
C25_Witness ==
    /\ pc = "idle"
    /\ obs.stage = "inv"
    /\ FirstLocked(obs.run0) = 2
    /\ Completed(root[1])
    /\ RootExists(root, TempManiName)
    /\ Len(RootRead(root, TempManiName).lines) = 2

----------------------------------------------------------------------------
(* Packaging runs: only 'BagIt' is checked; the batch holds plain objects   *)
(* and bags, and a new bag may turn out not to be valid.                   *)

InitBag ==
    /\ root \in Batches({"bare", "bag"})
    /\ ledger = GoodLedger(Len(root))
    /\ menu = [sels |-> {{"bagit"}}, prompts |-> {0}, prepack |-> {FALSE},
               folders |-> {"ok"}, crash |-> {},
               metainputs |-> {"ledger.csv"}, idcolumn |-> "Local ID",
               rootname |-> Nm("batch", ""), tardest |-> {TRUE},
               chosen |-> {""}, valid |-> BOOLEAN,
               maxruns |-> MaxWholeRuns]
    /\ out = <<>>
    /\ InitCommon

NextBag ==
    \/ RunProcs
    \/ AskPrepack
    \/ SkipStage("at_meta", "at_regstr", "meta")
    \/ SkipStage("at_regstr", "at_inv", "regstr")
    \/ SkipStage("at_inv", "at_bagit", "inv")
    \/ CallBagit
    \/ BagBegin \/ BagLoop \/ BagEnd
    \/ SkipStage("at_tar", "at_trans", "tar")
    \/ SkipStage("at_trans", "returned", "trans")
    \/ Return

SpecBag == InitBag /\ [][NextBag]_vars

\* the directories Packaging has met so far that it had to attempt: those
\* that did not look bagged, and those the operator said to bag anyway
Attempted == {i \in DOMAIN lv.hist : ~lv.hist[i].bagged \/ lv.hist[i].cont}

\* C22: Packaging attempts exactly the directories that do not look bagged
\* or whose re-bagging the operator confirms: those, and only those, are
\* turned into (new) bags and counted; a bag whose re-bagging is declined is
\* left as it was; the valid count never exceeds the attempted count; each
\* attempted bag that is not valid has a warning of its own, and no other
\* directory has one.  When the loop is over every directory that was in the
\* batch root has been met, in listing order.
C22_AttemptedAndValid ==
    lv.stage = "bagit" =>
        /\ \A i \in DOMAIN lv.hist :
              LET h == lv.hist[i] IN
              /\ h.bagged = (\E f \in Range(h.before) : f.p # <<>> /\ f.p[1] = "data")
              /\ i \in Attempted =>
                    /\ TreeOf(root, h.obj) # h.before
                    /\ TopExists(TreeOf(root, h.obj), "bagit.txt")
                    /\ \A f \in Range(h.before) :
                          \E g \in Range(TreeOf(root, h.obj)) :
                              g.p = <<"data">> \o f.p /\ g.n = f.n /\ g.c = f.c
              /\ i \notin Attempted => TreeOf(root, h.obj) = h.before
        /\ lv.totalbags = Cardinality(Attempted)
        /\ lv.validbags = Cardinality({i \in Attempted : lv.hist[i].valid})
        /\ lv.validbags <= lv.totalbags
        /\ lv.warnings = SelectSeq([i \in DOMAIN lv.hist |-> lv.hist[i].obj],
                                   LAMBDA o : \E i \in Attempted :
                                       lv.hist[i].obj = o /\ ~lv.hist[i].valid)
        /\ \A o \in Range(todo) : RootIsDir(root, o) => TreeOf(root, o) = TreeOf(obs.st0, o)
        /\ todo = <<>> =>
              [i \in DOMAIN lv.hist |-> lv.hist[i].obj]
                  = [i \in DOMAIN SelectSeq(obs.st0, LAMBDA en : en.isdir) |->
                        SelectSeq(obs.st0, LAMBDA en : en.isdir)[i].name]

\* C22 witness: Packaging has ended over a plain object, whose new bag was
\* not valid, and a bag the operator declined to bag again
C22_Witness ==
    /\ lv.stage = "bagit"
    /\ pc = "returned"
    /\ Len(lv.hist) = 2
    /\ lv.totalbags = 1
    /\ lv.validbags = 0
    /\ Len(lv.warnings) = 1
    /\ \E i \in DOMAIN lv.hist : lv.hist[i].bagged /\ ~lv.hist[i].cont

----------------------------------------------------------------------------
(* Metadata runs over ledgers in which the 'Local ID' cell of some rows is  *)
(* empty.                                                                  *)

\* a ledger row whose 'Local ID' cell is empty
BlankRow == <<"", "", "dept", "pers", "coll", "desc", "uri", "coll_uri">>

InitBlank ==
    /\ root \in Batches({"bare", "meta"})
    /\ ledger \in {[hdr |-> verifyHeadrs,
                     rows |-> [i \in 1..Len(root) |->
                                 IF i \in B THEN BlankRow ELSE MetaRow(ObjName(i))]] :
                    B \in SUBSET (1..Len(root))}
    /\ menu = [sels |-> {{"meta"}}, prompts |-> {0}, prepack |-> {FALSE},
               folders |-> {"ok"}, crash |-> {},
               metainputs |-> {"ledger.csv"}, idcolumn |-> "Local ID",
               rootname |-> Nm("batch", ""), tardest |-> {TRUE},
               chosen |-> {""}, valid |-> {TRUE},
               maxruns |-> MaxWholeRuns]
    /\ out = <<>>
    /\ InitCommon

NextBlank ==
    \/ RunProcs
    \/ AskPrepack
    \/ CallMeta
    \/ MetaBegin \/ MetaRowStep \/ MetaWrite \/ MetaRdf \/ MetaEnd
    \/ Return

SpecBlank == InitBlank /\ [][NextBlank]_vars

\* the files of tree t other than the record and its rendering
NotMeta(t) ==
    SelectSeq(t, LAMBDA f : ~(f.p = <<>> /\ f.n \in {"metadata.csv", "metadata.xml"}))

\* C23: the Metadata stage only writes a record and its rendering inside
\* object directories that exist: while it runs and when it has ended, the
\* batch root has the entries it had when the stage began, under the same
\* names (nothing renamed, deleted or created there), the files of the batch
\* root are as they were, every other file of every object is as it was, and
\* an object no ledger row names is as it was.
C23_MetaWritesOnlyRecords ==
    lv.stage = "meta" =>
        /\ Len(root) = Len(obs.st0)
        /\ \A i \in DOMAIN obs.st0 :
              /\ i \in DOMAIN root
              /\ root[i].name = obs.st0[i].name
              /\ root[i].isdir = obs.st0[i].isdir
              /\ ~obs.st0[i].isdir => root[i] = obs.st0[i]
              /\ obs.st0[i].isdir =>
                    /\ NotMeta(root[i].tree) = NotMeta(obs.st0[i].tree)
                    /\ (\A k \in DOMAIN ledger.rows :
                           DictGet(ledger.hdr, ledger.rows[k], menu.idcolumn)
                               # FullName(root[i].name))
                          => root[i] = obs.st0[i]

----------------------------------------------------------------------------
(* Runs the orchestrator's input checks may end: the folder, the check     *)
(* boxes, the ledger path and the identifier column may be missing; the    *)
(* operator may ask for pre-packaging.                                     *)

InitChk ==
    /\ root \in Batches({"bare", "meta"})
    /\ ledger = GoodLedger(Len(root))
    /\ menu \in {[sels |-> {{"meta"}, {}}, prompts |-> {0}, prepack |-> BOOLEAN,
                   folders |-> {"", "missing", "ok"}, crash |-> {},
                   metainputs |-> {"", "missing", "ledger.csv", "ledger.txt"},
                   idcolumn |-> ic,
                   rootname |-> Nm("batch", ""), tardest |-> {TRUE},
                   chosen |-> {""}, valid |-> {TRUE},
                   maxruns |-> MaxWholeRuns] : ic \in {"", "Local ID"}}
    /\ out = <<>>
    /\ InitCommon

NextChk ==
    \/ RunProcs
    \/ AskPrepack
    \/ PreList \/ PreLoop \/ PreCopy \/ PreCopyFile \/ PreThings \/ PrePrune
    \/ PreRename \/ PreEnd
    \/ CallMeta
    \/ MetaBegin \/ MetaRowStep \/ MetaWrite \/ MetaRdf \/ MetaEnd
    \/ Return

SpecChk == InitChk /\ [][NextChk]_vars

\* C27: every run-level input check of run_procs comes before any change to
\* the file system: a run one of the checks has ended leaves the batch root
\* as it was when the run began, whatever was answered to the pre-packaging
\* question.
C27_ChecksBeforeChanges ==
    (pc = "returned" /\ obs.aborted) => root = obs.run0

----------------------------------------------------------------------------
(* Whole runs without prompting: the thread goes on as long as a step is   *)
(* left to take.                                                           *)

InitAuto ==
    /\ root \in Batches({"bare"})
    /\ ledger = GoodLedger(Len(root))
    /\ menu = [sels |-> {{"meta", "regstr", "bagit"}, {"inv", "tar", "trans"}},
               prompts |-> {0}, prepack |-> {FALSE},
               folders |-> {"ok"}, crash |-> {},
               metainputs |-> {"ledger.csv", "ledger.txt"}, idcolumn |-> "Local ID",
               rootname |-> Nm("batch", ""), tardest |-> {TRUE},
               chosen |-> {""}, valid |-> {TRUE},
               maxruns |-> MaxWholeRuns]
    /\ out = <<>>
    /\ InitCommon

NextAuto ==
    \/ RunProcs
    \/ AskPrepack
    \/ SkipStage("at_meta", "at_regstr", "meta")
    \/ CallMeta
    \/ MetaBegin \/ MetaRowStep \/ MetaWrite \/ MetaRdf \/ MetaEnd
    \/ SkipStage("at_regstr", "at_inv", "regstr")
    \/ CallRegister
    \/ RegBegin \/ RegLogHeader \/ RegList \/ RegLoop \/ RegLog \/ RegTrunc
    \/ RegWrite \/ RegRemoveRdf \/ RegMakeRdf \/ RegRename \/ RegEnd
    \/ SkipStage("at_inv", "at_bagit", "inv")
    \/ CallInventory
    \/ InvBegin \/ InvLoop \/ InvOpen \/ InvHeader \/ InvFile \/ InvRow \/ InvComment
    \/ InvMove \/ InvEnd
    \/ SkipStage("at_bagit", "at_tar", "bagit")
    \/ CallBagit
    \/ BagBegin \/ BagLoop \/ BagEnd
    \/ SkipStage("at_tar", "at_trans", "tar")
    \/ CallTar
    \/ TarBegin \/ TarLoop \/ TarEnd
    \/ SkipStage("at_trans", "returned", "trans")
    \/ CallTrans
    \/ TransBegin \/ TransFile \/ TransEnd
    \/ Return

\* the callback runs on Tk's single thread, which takes the next step as
\* long as there is one; the operator answers every dialog
SpecAuto == InitAuto /\ [][NextAuto]_vars /\ WF_vars(NextAuto)

\* the run-level checks have passed and the metadata source is a CSV file:
\* create_meta is about to read the ledger, or Metadata is not checked
ChecksPassed ==
    \/ pc = "meta_begin"
    \/ pc = "at_meta" /\ "meta" \notin sel

====
